---- MODULE Spec2Model ----
(***************************************************************************)
(* Exam composition, grading, tagging and question generation of the CASp  *)
(* practice-exam backend (main.py, closed_book.py, psychometrics.py,       *)
(* test_prep_results.py, auto_tag_difficulty.py,                           *)
(* generate_open_book_questions.py).                                       *)
(*                                                                         *)
(* The questions table is kept in rowid order as a sequence of runs        *)
(* [cell, n]: n consecutive rows with the same (qtype, difficulty), the    *)
(* only columns the composer filters on.  The engine is SQLite             *)
(* (models.py DATABASE_URL): a query scans the table in rowid order, so    *)
(* `.limit(n).all()` yields the first n matching rows.                     *)
(***************************************************************************)
EXTENDS Integers, Sequences, FiniteSets, Bags, TLC

VARIABLES
    store,      \* the questions table: sequence of runs [cell, n] in rowid order
    bank,       \* closed_book_questions.json: [exists, items]
    req,        \* payload of the /exam call answered last (NoReq: none)
    resp,       \* its response (status "none": no call since the last setup step)
    quota,      \* last sub-quota split computed on its own (SpecQuota)
    cbStore,    \* closed_book.py: the questions of all owners, in id order
    cbReq,      \* arguments of the /closed-book/generate call answered last
    cbResp,     \* its result: the questions returned, or the HTTPException raised
    attempt,    \* psychometrics.py: the ExamAttempt being scored (NoAttempt: none)
    score,      \* its psychometric score (Optional[float] as an exact fraction)
    attempts,   \* psychometrics.py: the caller's list of ExamAttempt, in the caller's order
    profCall,   \* the proficiency call answered last: the list and exam type passed
    profScores, \* its local `scores`: the non-None scores of the kept attempts
    proficiency,\* its result (Optional[float])
    answers,    \* test_prep_results.py: the answers of the submission graded last
    result,     \* its ClosedBookResult (NoResult: none)
    tagCall,    \* auto_tag_difficulty.py: the text tagged last, its base and final difficulty
    tagInput,   \* open_book_questions.json: the questions to tag
    tagOutput,  \* open_book_questions_tagged.json: [exists, questions]
    fromTagger, \* the input file is a copy of a tagged output
    authoredBank,  \* generate_open_book_questions.py: open_book_questions_tagged.json
    generatedBank, \* generated_open_book_questions.json, the persisted pool
    archiveDir,    \* generated_tests/open_book: archive name -> [primary, meta]
    utcNow,        \* datetime.utcnow(), in seconds
    genRun,        \* the generation call made last, alone: [call, out]
    callers,       \* generation calls that run side by side: caller -> [pc, call, out]
    session        \* main.py, test_prep_results.py: the call under way, step by step,
                   \* and its `db` handle

strictVars == <<cbStore, cbReq, cbResp>>
scorerVars == <<attempt, score>>
historyVars == <<attempts, profCall, profScores, proficiency>>
graderVars == <<answers, result>>
taggerVars == <<tagCall, tagInput, tagOutput, fromTagger>>
generatorVars == <<authoredBank, generatedBank, archiveDir, utcNow, genRun, callers>>
vars == <<store, bank, req, resp, quota, strictVars, scorerVars, historyVars, graderVars,
          taggerVars, generatorVars, session>>

-----------------------------------------------------------------------------
(* Bounds of the model *)

\* insert runs of the questions table plus authored bank items explored
MaxSetup == 3
\* rows added by a bulk seeding run (more than either per-mode cap)
BulkRows == 61
\* largest total whose quota split is computed on its own
MaxTotal == 120

\* requested counts tried by the /exam calls
Counts == {-1, 0, 1, 2, 10, 50, 70}

-----------------------------------------------------------------------------
(* Values *)

NoneVal == "None"

Modes == {"open", "closed", "mixed"}
Kinds == {"open", "closed"}
Difficulties == {"easy", "medium", "hard", "test_prep"}
DIFFICULTY_LEVELS == {"easy", "medium", "hard", "test_prep"}

\* (type, difficulty) of the rows inserted, and the difficulties of the bank items written
InsertCells == [qtype : Kinds, difficulty : {"easy", "hard", NoneVal}]
BankTags == {"easy", "test_prep"}

ExamRequest == [mode : Modes, count : Counts, difficulty : Difficulties \cup {NoneVal}]

NoReq == [mode |-> NoneVal, count |-> 0, difficulty |-> NoneVal]

Min(a, b) == IF a < b THEN a ELSE b
Max(a, b) == IF a > b THEN a ELSE b

-----------------------------------------------------------------------------
(* Helpers of main.py *)

OpenMax == 40
ClosedMax == 60
MinQuestions == 1

\* clamp without its upper bound
clamp_no_maximum(n, minimum, maximum) ==
    IF n < minimum THEN minimum ELSE n

clamp(n, minimum, maximum) ==
    IF n < minimum THEN minimum
    ELSE IF n > maximum THEN maximum
    ELSE n

\* Python's round() of the fraction num/den (den > 0): nearest integer, ties to even
RoundHalfEven(num, den) ==
    LET q == num \div den
        r == num % den
    IN  IF 2 * r < den THEN q
        ELSE IF 2 * r > den THEN q + 1
        ELSE IF q % 2 = 0 THEN q ELSE q + 1

\* int(total_count * 0.4), and the force-to-1 block entered only above 2
mixed_quota_truncating(total_count) ==
    LET open0   == (total_count * 4) \div 10
        closed0 == total_count - open0
        forceO  == total_count > 2 /\ open0 = 0
        open1   == IF forceO THEN 1 ELSE open0
        closed1 == IF forceO THEN total_count - open1 ELSE closed0
    IN  [open_count |-> open1, closed_count |-> closed1]

\* build_mixed_exam, the quota split: round(total_count * 0.4) and the force-to-1 block
\* (total_count * 0.4 is a float product; for the totals of the model it lies within
\* 1e-13 of the fraction 4 * total_count / 10, which is never a tie)
mixed_quota(total_count) ==
    LET open0   == RoundHalfEven(total_count * 4, 10)
        closed0 == total_count - open0
        forceO  == total_count >= 2 /\ open0 = 0
        open1   == IF forceO THEN 1 ELSE open0
        closed1 == IF forceO THEN total_count - open1 ELSE closed0
        forceC  == total_count >= 2 /\ closed1 = 0
        closed2 == IF forceC THEN 1 ELSE closed1
        open2   == IF forceC THEN total_count - closed2 ELSE open1
    IN  [open_count |-> open2, closed_count |-> closed2]

-----------------------------------------------------------------------------
(* The questions table *)

Run(c, n) == [cell |-> c, n |-> n]

RECURSIVE Size(_)
\* len(rows)
Size(rows) == IF rows = <<>> THEN 0 ELSE Head(rows).n + Size(Tail(rows))

\* db.query(Question).filter(Question.qtype == kind)[.filter(Question.difficulty == difficulty)]
query(rows, kind, difficulty) ==
    LET keep(r) == /\ r.cell.qtype = kind
                   /\ (difficulty = NoneVal \/ r.cell.difficulty = difficulty)
    IN  SelectSeq(rows, keep)

RECURSIVE Take(_, _)
\* the first k rows of a table
Take(rows, k) ==
    IF k <= 0 \/ rows = <<>> THEN <<>>
    ELSE IF Head(rows).n >= k THEN <<Run(Head(rows).cell, k)>>
    ELSE <<Head(rows)>> \o Take(Tail(rows), k - Head(rows).n)

\* the query run without its .limit(n)
Limit_dropped(pool, n) == pool

\* query.limit(n).all()  (SQLite: a negative LIMIT is no limit)
Limit(pool, n) == IF n < 0 THEN pool ELSE Take(pool, n)

-----------------------------------------------------------------------------
(* Responses *)

NoResp ==
    [status |-> "none", code |-> 0, detail |-> "", mode |-> NoneVal, count |-> 0,
     questions |-> <<>>, items |-> <<>>, fallback |-> FALSE]

\* raise HTTPException(status_code, detail); fallback: whether the unfiltered
\* re-query ran before the call failed
HTTPException(status_code, detail, fallback) ==
    [status |-> "error", code |-> status_code, detail |-> detail, mode |-> NoneVal,
     count |-> 0, questions |-> <<>>, items |-> <<>>, fallback |-> fallback]

\* ExamResponse(mode, count, questions); a question is kept as its (qtype, difficulty),
\* which is what _map_question copies from a row; items: the bank items' positions
ExamResponse(mode, count, questions, items, fallback) ==
    [status |-> "ok", code |-> 200, detail |-> "", mode |-> mode, count |-> count,
     questions |-> questions, items |-> items, fallback |-> fallback]

-----------------------------------------------------------------------------
(* build_mixed_exam *)

\* each sub-pool falls back on its own when its filtered result is empty
build_mixed_exam_per_pool(rows, total_count, difficulty) ==
    LET q                == mixed_quota(total_count)
        open_filtered    == Limit(query(rows, "open", difficulty), q.open_count)
        closed_filtered  == Limit(query(rows, "closed", difficulty), q.closed_count)
        open_questions   == IF open_filtered = <<>>
                            THEN Limit(query(rows, "open", NoneVal), q.open_count)
                            ELSE open_filtered
        closed_questions == IF closed_filtered = <<>>
                            THEN Limit(query(rows, "closed", NoneVal), q.closed_count)
                            ELSE closed_filtered
        fallback         == difficulty # NoneVal
                            /\ (open_filtered = <<>> \/ closed_filtered = <<>>)
        questions        == open_questions \o closed_questions
    IN  IF Size(questions) = 0
        THEN HTTPException(400, "No questions available for requested difficulty/mode mix", fallback)
        ELSE ExamResponse("mixed", Size(questions), questions, <<>>, fallback)

build_mixed_exam(rows, total_count, difficulty) ==
    LET q                == mixed_quota(total_count)
        base_open        == query(rows, "open", NoneVal)
        base_closed      == query(rows, "closed", NoneVal)
        open_query       == query(rows, "open", difficulty)
        closed_query     == query(rows, "closed", difficulty)
        open_filtered    == Limit(open_query, q.open_count)
        closed_filtered  == Limit(closed_query, q.closed_count)
        fallback         == open_filtered = <<>> /\ closed_filtered = <<>> /\ difficulty # NoneVal
        open_questions   == IF fallback THEN Limit(base_open, q.open_count) ELSE open_filtered
        closed_questions == IF fallback THEN Limit(base_closed, q.closed_count) ELSE closed_filtered
        questions        == open_questions \o closed_questions
        effective_count  == Size(questions)
    IN  IF effective_count = 0
        THEN HTTPException(400, "No questions available for requested difficulty/mode mix", fallback)
        ELSE ExamResponse("mixed", effective_count, questions, <<>>, fallback)

-----------------------------------------------------------------------------
(* build_closed_test_prep_exam *)

RECURSIVE Shuffles(_)
\* random.shuffle(pool): every ordering of the positions in S
Shuffles(S) ==
    IF S = {} THEN {<<>>}
    ELSE UNION { { <<x>> \o t : t \in Shuffles(S \ {x}) } : x \in S }

\* pool[:count]
Slice(s, count) == SubSeq(s, 1, IF count < Len(s) THEN count ELSE Len(s))

\* ExamQuestion(qtype="closed", difficulty=q.get("difficulty")) for each selected item
bank_questions(items, selected) ==
    [i \in 1..Len(selected) |-> Run([qtype |-> "closed", difficulty |-> items[selected[i]]], 1)]

\* the pool taken from every item of the file, the difficulty filter forgotten
build_closed_test_prep_exam_unfiltered(file, count) ==
    IF ~file.exists
    THEN { HTTPException(500, "Closed-book question bank not found", FALSE) }
    ELSE { ExamResponse("closed", Len(Slice(sh, count)),
                        bank_questions(file.items, Slice(sh, count)),
                        Slice(sh, count), FALSE) : sh \in Shuffles(1..Len(file.items)) }

build_closed_test_prep_exam(file, count) ==
    IF ~file.exists
    THEN { HTTPException(500, "Closed-book question bank not found", FALSE) }
    ELSE LET pool == {i \in 1..Len(file.items) : file.items[i] = "test_prep"}
         IN  IF pool = {}
             THEN { HTTPException(400,
                        "No closed-book test prep questions available in JSON bank", FALSE) }
             ELSE { ExamResponse("closed", Len(Slice(sh, count)),
                                 bank_questions(file.items, Slice(sh, count)),
                                 Slice(sh, count), FALSE) : sh \in Shuffles(pool) }

-----------------------------------------------------------------------------
(* create_exam: POST /exam *)

\* the store branch without the `if not questions` check
store_exam_unchecked(rows, payload, clamped_count) ==
    LET base_query == query(rows, payload.mode, NoneVal)
        filtered   == Limit(query(rows, payload.mode, payload.difficulty), clamped_count)
        fallback   == filtered = <<>> /\ payload.difficulty # NoneVal
        questions  == IF fallback THEN Limit(base_query, clamped_count) ELSE filtered
    IN  ExamResponse(payload.mode, Min(clamped_count, Size(questions)),
                     questions, <<>>, fallback)

\* the store branch without the fallback to the kind-only filter
store_exam_no_fallback(rows, payload, clamped_count) ==
    LET questions == Limit(query(rows, payload.mode, payload.difficulty), clamped_count)
    IN  IF questions = <<>>
        THEN HTTPException(400, "No questions available", FALSE)
        ELSE ExamResponse(payload.mode, Min(clamped_count, Size(questions)),
                          questions, <<>>, FALSE)

\* the store branch topping a short filtered result up with rows of the kind alone
store_exam_topped_up(rows, payload, clamped_count) ==
    LET base_query == query(rows, payload.mode, NoneVal)
        filtered   == Limit(query(rows, payload.mode, payload.difficulty), clamped_count)
        fallback   == Size(filtered) < clamped_count /\ payload.difficulty # NoneVal
        questions  == IF fallback
                      THEN filtered \o Limit(base_query, clamped_count - Size(filtered))
                      ELSE filtered
    IN  IF questions = <<>>
        THEN HTTPException(400, "No questions available", fallback)
        ELSE ExamResponse(payload.mode, Min(clamped_count, Size(questions)),
                          questions, <<>>, fallback)

\* the store branch of create_exam (the questions table)
store_exam(rows, payload, clamped_count) ==
    LET base_query == query(rows, payload.mode, NoneVal)
        filtered   == Limit(query(rows, payload.mode, payload.difficulty), clamped_count)
        fallback   == filtered = <<>> /\ payload.difficulty # NoneVal
        questions  == IF fallback THEN Limit(base_query, clamped_count) ELSE filtered
    IN  IF questions = <<>>
        THEN HTTPException(400, "No questions available", fallback)
        ELSE ExamResponse(payload.mode, Min(clamped_count, Size(questions)),
                          questions, <<>>, fallback)

\* the set of responses the call can give (one, but for the shuffle of the bank)
create_exam(rows, file, payload) ==
    IF payload.mode = "mixed"
    THEN { build_mixed_exam(rows, payload.count, payload.difficulty) }
    ELSE LET max_q         == IF payload.mode = "open" THEN OpenMax ELSE ClosedMax
             clamped_count == clamp(payload.count, MinQuestions, max_q)
         IN  IF payload.mode = "closed" /\ payload.difficulty = "test_prep"
             THEN build_closed_test_prep_exam(file, clamped_count)
             ELSE { store_exam(rows, payload, clamped_count) }

-----------------------------------------------------------------------------
(* closed_book.py: the strict closed-book builder *)

\* questions of the strict builder's table explored
MaxRows == 3

Users == {1, 2}

\* a question row; its id is its position in cbStore (primary key, ascending)
CbQuestion == [is_open_book : BOOLEAN, owner_id : Users, difficulty : {"easy", "hard", NoneVal}]

\* count, difficulty: Optional[str] ("" is a given but falsy value), and the caller
CbRequest == [count : {-1, 0, 1, 2, 3}, difficulty : {NoneVal, "", "easy", "hard"}, user_id : Users]

NoCbReq == [count |-> 0, difficulty |-> NoneVal, user_id |-> 0]

\* the values the error's f-string interpolates
NoDetail == [difficulty |-> "", requested |-> 0, found |-> 0]

NoCbResp == [status |-> "none", code |-> 0, detail |-> NoDetail, questions |-> <<>>]

\* the builder returns whatever the query found, short or not
build_closed_book_exam_partial(rows, count, difficulty, user_id) ==
    LET given     == difficulty \notin {NoneVal, ""}
        indexed   == [i \in 1..Len(rows) |->
                        [id |-> i, is_open_book |-> rows[i].is_open_book,
                         owner_id |-> rows[i].owner_id, difficulty |-> rows[i].difficulty]]
        keep(q)   == /\ q.is_open_book = FALSE
                     /\ q.owner_id = user_id
                     /\ (given => q.difficulty = difficulty)
        found     == SelectSeq(indexed, keep)
        questions == IF count < 0 THEN found ELSE SubSeq(found, 1, Min(count, Len(found)))
    IN  [status |-> "ok", code |-> 200, detail |-> NoDetail, questions |-> questions]

build_closed_book_exam(rows, count, difficulty, user_id) ==
    LET given     == difficulty \notin {NoneVal, ""}
        indexed   == [i \in 1..Len(rows) |->
                        [id |-> i, is_open_book |-> rows[i].is_open_book,
                         owner_id |-> rows[i].owner_id, difficulty |-> rows[i].difficulty]]
        keep(q)   == /\ q.is_open_book = FALSE
                     /\ q.owner_id = user_id
                     /\ (given => q.difficulty = difficulty)
        found     == SelectSeq(indexed, keep)
        questions == IF count < 0 THEN found ELSE SubSeq(found, 1, Min(count, Len(found)))
    IN  IF Len(questions) < count
        THEN [status |-> "error", code |-> 400,
              detail |-> [difficulty |-> IF given THEN difficulty ELSE "ANY",
                          requested |-> count, found |-> Len(questions)],
              questions |-> <<>>]
        ELSE [status |-> "ok", code |-> 200, detail |-> NoDetail, questions |-> questions]

-----------------------------------------------------------------------------
(* psychometrics.py: the single-attempt score *)

\* domain results of one attempt explored
MaxDomains == 2

\* a float as the exact fraction num/den, den > 0, in lowest terms
RECURSIVE GCD(_, _)
GCD(a, b) == IF b = 0 THEN a ELSE GCD(b, a % b)

Abs(x) == IF x < 0 THEN 0 - x ELSE x

Frac(n, d) ==
    LET sn == IF d < 0 THEN 0 - n ELSE n
        sd == Abs(d)
        g  == GCD(Abs(sn), sd)
    IN  [num |-> sn \div g, den |-> sd \div g]

FAdd(a, b) == Frac(a.num * b.den + b.num * a.den, a.den * b.den)
FMul(a, b) == Frac(a.num * b.num, a.den * b.den)
FDiv(a, b) == Frac(a.num * b.den, a.den * b.num)
FLe(a, b) == a.num * b.den <= b.num * a.den

\* max(0.0, min(100.0, x))
Clamp100(x) ==
    LET low == IF FLe(Frac(100, 1), x) THEN Frac(100, 1) ELSE x
    IN  IF FLe(low, Frac(0, 1)) THEN Frac(0, 1) ELSE low

\* Optional[float]
NA == [na |-> TRUE, val |-> Frac(0, 1)]
Some(x) == [na |-> FALSE, val |-> x]

ExamTypes == {"open_book", "closed_book", "mixed"}
ExamModes == {"official_like", "test_prep"}

\* weights in hundredths
CLOSED_BOOK_WEIGHTS ==
    [CBC_ADAAG |-> 30, HOUSING |-> 20, FEDERAL_REGS |-> 20,
     CASP_RESPONSIBILITY |-> 15, APPLICABLE_STANDARDS |-> 15]

OPEN_BOOK_WEIGHTS ==
    [F_SITE_ELEMENTS_EV |-> 25, G_ROUTES |-> 20, H_PLUMBING |-> 20,
     I_COMMUNICATION |-> 15, J_BUILT_IN |-> 20]

\* default alpha = 0.4
AlphaNum == 4
AlphaDen == 10
DefaultAlpha == Frac(AlphaNum, AlphaDen)

compute_raw_percent(total_correct, total_questions) ==
    IF total_questions <= 0 THEN NA
    ELSE Some(Frac(total_correct * 100, total_questions))

\* the weight table of an exam type, or NoneVal
get_weights_for_exam_type(exam_type) ==
    IF exam_type = "closed_book" THEN CLOSED_BOOK_WEIGHTS
    ELSE IF exam_type = "open_book" THEN OPEN_BOOK_WEIGHTS
    ELSE NoneVal

\* domain_scores: code -> percent, over the domains with questions; a later result of
\* the same code overwrites an earlier one
domain_scores_of(domains) ==
    LET scored == {i \in 1..Len(domains) : domains[i].questions_in_domain > 0}
        codes  == {domains[i].domain_code : i \in scored}
        last(c) == CHOOSE i \in scored :
                      /\ domains[i].domain_code = c
                      /\ \A j \in scored : domains[j].domain_code = c => j <= i
    IN  [c \in codes |->
            Frac(domains[last(c)].correct_in_domain * 100, domains[last(c)].questions_in_domain)]

RECURSIVE WeightedSum(_, _, _)
\* sum of w * domain_scores[code] over the codes C
WeightedSum(weights, scores, C) ==
    IF C = {} THEN Frac(0, 1)
    ELSE LET c == CHOOSE x \in C : TRUE
         IN  FAdd(FMul(Frac(weights[c], 100), scores[c]), WeightedSum(weights, scores, C \ {c}))

\* the weight of the whole table (1.0), whichever domains are present
WeightTotal_whole_table(weights, C) == Frac(1, 1)

RECURSIVE WeightTotal(_, _)
WeightTotal(weights, C) ==
    IF C = {} THEN Frac(0, 1)
    ELSE LET c == CHOOSE x \in C : TRUE
         IN  FAdd(Frac(weights[c], 100), WeightTotal(weights, C \ {c}))

\* the blend returned as computed, without max(0.0, min(100.0, x))
blended_score_unclamped(exam, alpha, weights) ==
    LET raw_percent   == Frac(exam.total_correct * 100, exam.total_questions)
        domain_scores == domain_scores_of(exam.domains)
        present       == DOMAIN weights \cap DOMAIN domain_scores
        total_weight  == WeightTotal(weights, present)
        composite     == IF total_weight.num > 0
                         THEN FDiv(WeightedSum(weights, domain_scores, present), total_weight)
                         ELSE raw_percent
        one_minus     == FAdd(Frac(1, 1), Frac(0 - alpha.num, alpha.den))
    IN  IF DOMAIN domain_scores = {}
        THEN Some(raw_percent)
        ELSE Some(FAdd(FMul(alpha, raw_percent), FMul(one_minus, composite)))

\* the blend of raw percent and domain composite, once the early returns are passed
blended_score(exam, alpha, weights) ==
    LET raw_percent   == Frac(exam.total_correct * 100, exam.total_questions)
        domain_scores == domain_scores_of(exam.domains)
        present       == DOMAIN weights \cap DOMAIN domain_scores
        total_weight  == WeightTotal(weights, present)
        composite     == IF total_weight.num > 0
                         THEN FDiv(WeightedSum(weights, domain_scores, present), total_weight)
                         ELSE raw_percent
        one_minus     == FAdd(Frac(1, 1), Frac(0 - alpha.num, alpha.den))
    IN  IF DOMAIN domain_scores = {}
        THEN Some(Clamp100(raw_percent))
        ELSE Some(Clamp100(FAdd(FMul(alpha, raw_percent), FMul(one_minus, composite))))

\* the score computed whatever the attempt's mode
compute_psychometric_score_any_mode(exam, alpha) ==
    IF exam.total_questions <= 0 THEN NA
    ELSE IF exam.exam_type \notin {"closed_book", "open_book"} THEN NA
    ELSE blended_score(exam, alpha, get_weights_for_exam_type(exam.exam_type))

compute_psychometric_score_for_exam(exam, alpha) ==
    IF exam.mode # "test_prep" THEN NA
    ELSE IF exam.total_questions <= 0 THEN NA
    ELSE IF compute_raw_percent(exam.total_correct, exam.total_questions).na THEN NA
    ELSE IF exam.exam_type \notin {"closed_book", "open_book"} THEN NA
    ELSE blended_score(exam, alpha, get_weights_for_exam_type(exam.exam_type))

\* the attempts scored: domain codes of the closed-book table and one of the open-book
\* table; counts that make a domain empty, or hold more correct answers than questions
DomainResult ==
    [domain_code : {"CBC_ADAAG", "HOUSING", "G_ROUTES"},
     questions_in_domain : {0, 1, 2},
     correct_in_domain : {0, 1, 3}]

ExamAttempt ==
    [exam_type : ExamTypes, mode : ExamModes,
     total_questions : {-1, 0, 1, 2}, total_correct : {-1, 0, 1, 3},
     domains : UNION {[1..k -> DomainResult] : k \in 0..MaxDomains}]

NoAttempt ==
    [exam_type |-> NoneVal, mode |-> NoneVal, total_questions |-> 0,
     total_correct |-> 0, domains |-> <<>>]

-----------------------------------------------------------------------------
(* psychometrics.py: longitudinal proficiency *)

\* attempts kept in a caller's list
MaxAttempts == 4

\* recent = filtered[-3:]
RecentKept == 3

\* base_weights, oldest -> newest: 0.2, 0.3, 0.5
base_weights == <<Frac(2, 10), Frac(3, 10), Frac(5, 10)>>

\* s[-n:] of Python: the last n elements, the whole list when n = 0 or n >= len(s)
LastN(s, n) ==
    IF n = 0 \/ n >= Len(s) THEN s ELSE SubSeq(s, Len(s) - n + 1, Len(s))

RECURSIVE sort_by_taken_at(_)
\* filtered.sort(key=lambda a: a.taken_at): ascending and stable
sort_by_taken_at(s) ==
    IF s = <<>> THEN <<>>
    ELSE LET first == CHOOSE i \in 1..Len(s) :
                         \A j \in 1..Len(s) :
                            \/ s[i].taken_at < s[j].taken_at
                            \/ (s[i].taken_at = s[j].taken_at /\ i <= j)
             rest  == [k \in 1..(Len(s) - 1) |-> IF k < first THEN s[k] ELSE s[k + 1]]
         IN  <<s[first]>> \o sort_by_taken_at(rest)

\* the last attempts of the exam type whatever their mode
recent_attempts_any_mode(attempts_list, exam_type) ==
    LastN(sort_by_taken_at(SelectSeq(attempts_list, LAMBDA a : a.exam_type = exam_type)),
          RecentKept)

\* filtered (test-prep attempts of the exam type), sorted by date, its last 3
recent_attempts(attempts_list, exam_type) ==
    LET filtered == SelectSeq(attempts_list,
                        LAMBDA a : a.exam_type = exam_type /\ a.mode = "test_prep")
    IN  LastN(sort_by_taken_at(filtered), RecentKept)

RECURSIVE FSum(_)
\* sum(weights)
FSum(ws) == IF ws = <<>> THEN Frac(0, 1) ELSE FAdd(Head(ws), FSum(Tail(ws)))

\* the tail of base_weights as it is, not divided by its sum
recency_weights_as_is(n) == LastN(base_weights, n)

\* weights = base_weights[-len(recent):], each divided by their sum
recency_weights(n) ==
    LET ws      == LastN(base_weights, n)
        total_w == FSum(ws)
    IN  IF total_w.num > 0
        THEN [i \in 1..Len(ws) |-> FDiv(ws[i], total_w)]
        ELSE [i \in 1..n |-> Frac(1, n)]

RECURSIVE scores_of(_, _)
\* scores: the score of each recent attempt that has one, in order
scores_of(recent, alpha) ==
    IF recent = <<>> THEN <<>>
    ELSE LET s == compute_psychometric_score_for_exam(Head(recent), alpha)
         IN  (IF s.na THEN <<>> ELSE <<s.val>>) \o scores_of(Tail(recent), alpha)

RECURSIVE weighted_scores(_, _)
\* sum(w * s for w, s in zip(effective_weights, scores))
weighted_scores(ws, ss) ==
    IF ws = <<>> \/ ss = <<>> THEN Frac(0, 1)
    ELSE FAdd(FMul(Head(ws), Head(ss)), weighted_scores(Tail(ws), Tail(ss)))

compute_psychometric_proficiency_for_type(attempts_list, exam_type, alpha) ==
    LET recent  == recent_attempts(attempts_list, exam_type)
        weights == recency_weights(Len(recent))
        kept    == scores_of(recent, alpha)
        effective_weights ==
            IF Len(kept) < Len(weights) THEN LastN(weights, Len(kept)) ELSE weights
    IN  IF recent = <<>> THEN NA
        ELSE IF kept = <<>> THEN NA
        ELSE Some(Clamp100(weighted_scores(effective_weights, kept)))

\* timestamps of the attempts
Times == {1, 2}

\* totals and domain results of the attempts of a list: no questions (no score), 4 of 5,
\* 3 of 5
AttemptTotals ==
    { [total_questions |-> 0, total_correct |-> 0, domains |-> <<>>],
      [total_questions |-> 5, total_correct |-> 4, domains |-> <<>>],
      [total_questions |-> 5, total_correct |-> 3, domains |-> <<>>] }

\* a negative correct count
NegativeCount == [total_questions |-> 2, total_correct |-> -1, domains |-> <<>>]

\* more correct answers than questions, in total and in the domain
OverCount ==
    [total_questions |-> 1, total_correct |-> 3,
     domains |-> << [domain_code |-> "CBC_ADAAG", questions_in_domain |-> 1,
                     correct_in_domain |-> 3] >>]

\* ExamAttempt with its taken_at (exam_id is read by no function)
TimedAttempt(exam_type, mode, taken_at, totals) ==
    [exam_type |-> exam_type, mode |-> mode, taken_at |-> taken_at,
     total_questions |-> totals.total_questions, total_correct |-> totals.total_correct,
     domains |-> totals.domains]

FourOfFive == [total_questions |-> 5, total_correct |-> 4, domains |-> <<>>]

\* the attempts a caller's list is made of: closed-book test-prep attempts, among them
\* one with a negative count and one over-counted, and a late attempt of another exam
\* type and of another mode
HistoryAttempts ==
    {TimedAttempt("closed_book", "test_prep", t, c) : t \in Times, c \in AttemptTotals}
    \cup {TimedAttempt("closed_book", "test_prep", 1, NegativeCount),
          TimedAttempt("closed_book", "test_prep", 2, OverCount),
          TimedAttempt("open_book", "test_prep", 2, FourOfFive),
          TimedAttempt("closed_book", "official_like", 2, FourOfFive)}

NoProfCall == [attempts |-> <<>>, exam_type |-> NoneVal]

-----------------------------------------------------------------------------
(* test_prep_results.py: grading of a test-prep submission *)

\* runs of answers in a submission
MaxRuns == 2

\* DOMAIN_WEIGHTS, in ten-thousandths
DOMAIN_WEIGHTS ==
    [cbc_scoping |-> 4000, housing |-> 2000, federal_regs |-> 1333,
     casp_statutes |-> 1333, identifying_standards |-> 1333]

\* topics of the questions of the table (seed_questions.py, and source file stems)
Topics == {"Sample Closed", "Housing"}

\* import_closed_book_from_docx.py: the closed-book domain of a topic, by keyword
\* ("housing" in the lowered topic; no keyword: the default bucket)
infer_domain_from_topic(topic) ==
    IF topic = "Housing" THEN "housing" ELSE "cbc_scoping"

\* a submission is a sequence of runs of n answers: each to a question of the topic
\* (NoneVal: the question id is not in the table), with the correct choice or not
AnswerRun == [topic : Topics \cup {NoneVal}, right : BOOLEAN, n : {1, 5, 10}]

Submissions == UNION {[1..k -> AnswerRun] : k \in 0..MaxRuns}

\* getattr(q, "domain", None): the Question model has no column or attribute `domain`
question_domain(q) == NoneVal

RECURSIVE SumN(_, _)
\* the number of answers in the runs at the indices I
SumN(runs, I) ==
    IF I = {} THEN 0
    ELSE LET i == CHOOSE x \in I : TRUE IN runs[i].n + SumN(runs, I \ {i})

simple_percent(total, correct) ==
    IF total <= 0 THEN Frac(0, 1) ELSE Frac(correct * 100, total)

\* the domain under which an answer is tallied, NoneVal when it is skipped
tallied_domain(run) ==
    IF run.topic = NoneVal THEN NoneVal ELSE question_domain(run.topic)

RECURSIVE MasterySum(_, _, _)
\* sum over the domains D of f[d]
MasterySum(f, D, zero) ==
    IF D = {} THEN zero
    ELSE LET d == CHOOSE x \in D : TRUE
         IN  FAdd(f[d], MasterySum(f, D \ {d}, zero))

compute_closed_book_mastery(submitted) ==
    LET domains      == {tallied_domain(submitted[i]) : i \in 1..Len(submitted)} \ {NoneVal}
        tallied(d)   == {i \in 1..Len(submitted) : tallied_domain(submitted[i]) = d}
        domain_total == [d \in domains |-> SumN(submitted, tallied(d))]
        domain_correct == [d \in domains |->
                            SumN(submitted, {i \in tallied(d) : submitted[i].right})]
        weighted     == {d \in domains \cap DOMAIN DOMAIN_WEIGHTS : DOMAIN_WEIGHTS[d] > 0}
        weighted_sum == MasterySum([d \in weighted |->
                            FMul(simple_percent(domain_total[d], domain_correct[d]),
                                 Frac(DOMAIN_WEIGHTS[d], 10000))], weighted, Frac(0, 1))
        total_weight == MasterySum([d \in weighted |-> Frac(DOMAIN_WEIGHTS[d], 10000)],
                                   weighted, Frac(0, 1))
    IN  IF submitted = <<>> THEN Frac(0, 1)
        ELSE IF domains = {} THEN Frac(0, 1)
        ELSE IF total_weight.num <= 0 THEN Frac(0, 1)
        ELSE FDiv(weighted_sum, total_weight)

\* ClosedBookResult of POST /api/closed-book/test-prep-results
closed_book_results(submitted) ==
    LET total   == SumN(submitted, 1..Len(submitted))
        correct == SumN(submitted, {i \in 1..Len(submitted) :
                                       submitted[i].topic # NoneVal /\ submitted[i].right})
    IN  [correct |-> correct, total_questions |-> total,
         percent |-> simple_percent(total, correct),
         psychometric_score |-> compute_closed_book_mastery(submitted)]

\* no result outstanding (total_questions is len(answers), never negative, in a result)
NoResult ==
    [correct |-> 0, total_questions |-> -1, percent |-> Frac(0, 1),
     psychometric_score |-> Frac(0, 1)]

-----------------------------------------------------------------------------
(* auto_tag_difficulty.py: difficulty and category tagging of the open-book bank *)

\* code references counted in a text
MaxRefs == 4
\* questions in the bank file
MaxBank == 2

\* lengths of the stripped text, around the thresholds 140, 260, 340 and 350
Lengths == {0, 139, 140, 260, 261, 340, 341, 350, 351}

VALID_OPEN_BOOK_CATEGORIES == {"11B-5/8", "11B-4", "11B-6", "11B-7", "11B-9"}

\* A text is known by what the tagger reads of it: whether it is the empty string, the
\* length of text.strip(), the matches of CBC_PATTERN and SECTION_PATTERN, the presence
\* of a list marker, of a scenario keyword, of an exam-style marker and of a packet
\* marker, and the keyword groups of normalize_category that hit, each named by the
\* category it stands for.
EmptyText ==
    [empty |-> TRUE, length |-> 0, refs |-> 0, listy |-> FALSE, scenario |-> FALSE,
     examy |-> FALSE, packet |-> FALSE, keywords |-> {}]

\* white space only: not empty, and nothing left by strip()
WhitespaceText == [EmptyText EXCEPT !.empty = FALSE]

Texts ==
    {EmptyText, WhitespaceText} \cup
    [empty : {FALSE}, length : Lengths \ {0}, refs : 0..MaxRefs, listy : BOOLEAN,
     scenario : BOOLEAN, examy : BOOLEAN, packet : BOOLEAN,
     keywords : {{}}]

count_code_refs(text) == IF text.length = 0 THEN 0 ELSE text.refs
has_list_structure(text) == text.length # 0 /\ text.listy
is_scenario(text) == text.length # 0 /\ text.scenario
is_exam_style(text) == text.length # 0 /\ text.examy

\* the rules without the mild hard signals
estimate_difficulty_no_mild_hard(text) ==
    IF text.empty THEN "medium"
    ELSE LET length   == text.length
             refs     == count_code_refs(text)
             listy    == has_list_structure(text)
             scenario == is_scenario(text)
             examy    == is_exam_style(text)
         IN  IF length > 350 \/ refs >= 4 \/ (scenario /\ examy) \/ (scenario /\ refs >= 2)
             THEN "hard"
             ELSE IF length < 140 /\ refs <= 1 /\ ~scenario /\ ~listy
             THEN "easy"
             ELSE "medium"

estimate_difficulty(text) ==
    IF text.empty THEN "medium"
    ELSE LET length   == text.length
             refs     == count_code_refs(text)
             listy    == has_list_structure(text)
             scenario == is_scenario(text)
             examy    == is_exam_style(text)
         IN  IF length > 350 \/ refs >= 4 \/ (scenario /\ examy) \/ (scenario /\ refs >= 2)
             THEN "hard"
             ELSE IF length < 140 /\ refs <= 1 /\ ~scenario /\ ~listy
             THEN "easy"
             ELSE IF \/ (length > 260 /\ (scenario \/ refs >= 2))
                     \/ (listy /\ (scenario \/ refs >= 2))
             THEN "hard"
             ELSE "medium"

\* the upgrade rules applied whatever the base difficulty
is_test_prep_candidate_any_base(text, base_difficulty) ==
    IF text.empty THEN FALSE
    ELSE LET refs     == count_code_refs(text)
             scenario == is_scenario(text)
             examy    == is_exam_style(text)
             long_enough == text.length > 260
             very_long   == text.length > 340
             has_packet_markers == text.packet
         IN  \/ has_packet_markers
             \/ (very_long /\ scenario /\ refs >= 2)
             \/ (long_enough /\ scenario /\ examy /\ refs >= 2)
             \/ (scenario /\ examy /\ refs >= 3)

is_test_prep_candidate(text, base_difficulty) ==
    IF text.empty \/ base_difficulty # "hard" THEN FALSE
    ELSE LET refs     == count_code_refs(text)
             scenario == is_scenario(text)
             examy    == is_exam_style(text)
             long_enough == text.length > 260
             very_long   == text.length > 340
             has_packet_markers == text.packet
         IN  \/ has_packet_markers
             \/ (very_long /\ scenario /\ refs >= 2)
             \/ (long_enough /\ scenario /\ examy /\ refs >= 2)
             \/ (scenario /\ examy /\ refs >= 3)

\* str.strip() on the category strings of the model
strip(c) == IF c = " 11B-7 " THEN "11B-7" ELSE c

\* the keyword guess of normalize_category: the groups are tried in the order of the
\* code, and the first that hits decides
guess_category(text) ==
    IF "11B-5/8" \in text.keywords THEN "11B-5/8"
    ELSE IF "11B-4" \in text.keywords THEN "11B-4"
    ELSE IF "11B-6" \in text.keywords THEN "11B-6"
    ELSE IF "11B-7" \in text.keywords THEN "11B-7"
    ELSE IF "11B-9" \in text.keywords THEN "11B-9"
    ELSE "UNASSIGNED"

\* the question with its category ensured: a valid category is kept as it is written,
\* any other is replaced by the keyword guess
normalize_category(q) ==
    LET cat == strip(IF q.category = NoneVal THEN "" ELSE q.category)
    IN  IF cat \in VALID_OPEN_BOOK_CATEGORIES THEN q
        ELSE [q EXCEPT !.category = guess_category(q.text)]

\* one turn of the loop of main that keeps a difficulty the question already carries
tag_question_keeping_difficulty(q) ==
    LET base == estimate_difficulty(q.text)
        difficulty == IF q.difficulty # NoneVal THEN q.difficulty
                      ELSE IF is_test_prep_candidate(q.text, base) THEN "test_prep"
                      ELSE base
    IN  normalize_category([q EXCEPT !.difficulty = difficulty])

\* one turn of the loop of main
tag_question(q) ==
    LET base == estimate_difficulty(q.text)
        difficulty == IF is_test_prep_candidate(q.text, base) THEN "test_prep" ELSE base
    IN  normalize_category([q EXCEPT !.difficulty = difficulty])

\* main: tagged_questions, as written to the output file
main(questions) == [i \in 1..Len(questions) |-> tag_question(questions[i])]

\* keyword groups hit by the texts of the bank questions: none, or two at once
BankKeywords == {{}, {"11B-4", "11B-6"}, {"11B-5/8", "11B-9"}}

\* texts of the bank questions: empty, easy, medium, hard and test_prep ones, with or
\* without category keywords
BankTexts ==
    {EmptyText} \cup
    { [empty |-> FALSE, length |-> l, refs |-> 0, listy |-> FALSE, scenario |-> FALSE,
       examy |-> FALSE, packet |-> pk, keywords |-> k] :
        l \in {139, 351}, pk \in BOOLEAN, k \in BankKeywords }

\* questions of the input file: any text, with or without a difficulty, without a
\* category or with a valid, a padded valid or an invalid one
BankQuestions ==
    [text : BankTexts, difficulty : {NoneVal, "test_prep"},
     category : {NoneVal, "11B-7", " 11B-7 ", "11B-2"}]

NoTagCall == [text |-> EmptyText, base |-> NoneVal, difficulty |-> NoneVal]
NoFile == [exists |-> FALSE, questions |-> <<>>]

-----------------------------------------------------------------------------
(* generate_open_book_questions.py: growth of the generated question pool *)

\* largest num_questions asked of a generation run
MaxBatch == 2
\* last second of the UTC clock
LastSecond == 1

\* A Python string is a sequence of pieces of text.  A piece is [w, cap]: w is the
\* piece in lower case, cap tells whether it is written with capital letters.
\* " " is white space.  One string is inside another when its pieces are consecutive
\* pieces of the other.
Lc(w) == [w |-> w, cap |-> FALSE]
Uc(w) == [w |-> w, cap |-> TRUE]
Blank == Lc(" ")

\* len() of a piece, in characters
PieceLen(w) ==
    CASE w = " " -> 1
      [] w = "parking" -> 7
      [] w = "stall" -> 5
      [] w = "[easy placeholder] " -> 19
      [] w = "[medium placeholder] " -> 21
      [] w = "[hard placeholder] " -> 19
      [] w = "[test prep placeholder] advanced exam-preparation scenario on " -> 62
      [] w = " question in " -> 13
      [] w = " scenario in " -> 13
      [] w = " multi-step" -> 11
      [] w = " in " -> 4
      [] w = " with multiple cbc 11b references" -> 33
      [] w = ", with layered conditions and carefully designed distractors consistent with casp open-book exam style" -> 103
      [] w = " (replace with model-generated content)." -> 40
      [] w = "div 2-5/8 site, parking, evcs (f)" -> 33
      [] w = "div 2-4 accessible routes (g)" -> 29

RECURSIVE len(_)
len(str) == IF str = <<>> THEN 0 ELSE PieceLen(Head(str).w) + len(Tail(str))

\* str.lower()
lower(str) == [i \in 1..Len(str) |-> Lc(str[i].w)]

\* str.strip()
RECURSIVE lstrip(_)
lstrip(str) == IF str # <<>> /\ Head(str) = Blank THEN lstrip(Tail(str)) ELSE str
RECURSIVE rstrip(_)
rstrip(str) ==
    IF str # <<>> /\ str[Len(str)] = Blank
    THEN rstrip(SubSeq(str, 1, Len(str) - 1))
    ELSE str
strip_str(str) == rstrip(lstrip(str))

\* `small in big` of two strings
in_str(small, big) ==
    \E o \in 0..(Len(big) - Len(small)) : SubSeq(big, o + 1, o + Len(small)) = small

\* CASP_CATEGORY_DEFS: the first two of the five categories
CASP_CATEGORY_DEFS ==
    { [code |-> "11B-5/8", label |-> Uc("div 2-5/8 site, parking, evcs (f)")],
      [code |-> "11B-4", label |-> Uc("div 2-4 accessible routes (g)")] }

VALID_DIFFICULTIES == {"easy", "medium", "hard", "test_prep"}
OPEN_BOOK_MAX_QUESTIONS == 40

\* difficulty.strip().lower() on the difficulty strings of the model
normalize_difficulty(d) == IF d = " Easy " THEN "easy" ELSE d

\* An id is the string prefix + tail: the tail is the decimal n written on `width`
\* digits when `digits` holds, and is not a number otherwise.
GenId(prefix, n, width) == [prefix |-> prefix, digits |-> TRUE, n |-> n, width |-> width]
DraftId(prefix) == [prefix |-> prefix, digits |-> FALSE, n |-> 0, width |-> 0]

RECURSIVE NumDigits(_)
NumDigits(n) == IF n < 10 THEN 1 ELSE 1 + NumDigits(n \div 10)

\* f"{prefix}{n:06d}"
format_id(prefix, n) == GenId(prefix, n, Max(6, NumDigits(n)))

\* load_json_list / save_json_list: a file holds the JSON text of a value, an array
\* for a list and an object for a dict; a missing file reads as the empty list
json_dump(data) == [kind |-> "array", items |-> data]
json_dump_object(data) == [kind |-> "object", members |-> data]
load_json_list(file) == IF file.kind = "array" THEN file.items ELSE <<>>

\* collect_existing_ids: the ids of both banks
collect_existing_ids(authored, generated) ==
    {authored[i].id : i \in 1..Len(authored)}
        \cup {generated[i].id : i \in 1..Len(generated)}

\* next_generated_id without the scan for the largest suffix in use
next_generated_id_from_one(existing_ids, exam_type) ==
    LET prefix == IF exam_type = "open_book" THEN "gen-ob-" ELSE "gen-cb-"
    IN  format_id(prefix, 1)

\* next_generated_id: one more than the largest numeric suffix of the ids with the
\* prefix, and further on while that id is in use
next_generated_id(existing_ids, exam_type) ==
    LET prefix == IF exam_type = "open_book" THEN "gen-ob-" ELSE "gen-cb-"
        suffixes == {id.n : id \in {e \in existing_ids : e.prefix = prefix /\ e.digits}}
        max_n == IF suffixes = {} THEN 0
                 ELSE CHOOSE m \in suffixes : \A k \in suffixes : k <= m
        free == {n \in (max_n + 1)..(max_n + 1 + Cardinality(existing_ids)) :
                    format_id(prefix, n) \notin existing_ids}
        n == CHOOSE m \in free : \A k \in free : m <= k
    IN  format_id(prefix, n)

\* is_too_similar with the stems compared as they are written
is_too_similar_as_written(stem, existing_stems) ==
    LET new == strip_str(stem)
    IN  IF new = <<>> THEN FALSE
        ELSE \E i \in 1..Len(existing_stems) :
                LET old == strip_str(existing_stems[i])
                IN  /\ old # <<>>
                    /\ \/ new = old
                       \/ (len(new) >= 40 /\ (in_str(new, old) \/ in_str(old, new)))

\* is_too_similar
is_too_similar(stem, existing_stems) ==
    LET new == lower(strip_str(stem))
    IN  IF new = <<>> THEN FALSE
        ELSE \E i \in 1..Len(existing_stems) :
                LET old == lower(strip_str(existing_stems[i]))
                IN  /\ old # <<>>
                    /\ \/ new = old
                       \/ (len(new) >= 40 /\ (in_str(new, old) \/ in_str(old, new)))

\* collect_all_stems: the texts of the banks, in order
collect_all_stems(authored, generated) ==
    [i \in 1..Len(authored) |-> authored[i].text]
        \o [i \in 1..Len(generated) |-> generated[i].text]

\* call_model_to_generate_question: the stem of the placeholder question
call_model_to_generate_question(difficulty, cbc_category_label, topic) ==
    LET replace == Lc(" (replace with model-generated content).")
    IN  CASE difficulty = "easy" ->
               <<Uc("[easy placeholder] ")>> \o topic
                   \o <<Lc(" question in "), cbc_category_label, replace>>
          [] difficulty = "medium" ->
               <<Uc("[medium placeholder] ")>> \o topic
                   \o <<Lc(" scenario in "), cbc_category_label, replace>>
          [] difficulty = "hard" ->
               <<Uc("[hard placeholder] ")>> \o topic
                   \o <<Lc(" multi-step"), Lc(" scenario in "), cbc_category_label,
                        Uc(" with multiple cbc 11b references"), replace>>
          [] OTHER ->
               <<Uc("[test prep placeholder] advanced exam-preparation scenario on ")>>
                   \o topic
                   \o <<Lc(" in "), cbc_category_label,
                        Uc(", with layered conditions and carefully designed distractors consistent with casp open-book exam style"),
                        replace>>

\* the name of an archive: test-{exam_type}-{difficulty}-{ts}, ts to the second
archive_name(exam_type, difficulty, now) ==
    [exam_type |-> exam_type, difficulty |-> difficulty, ts |-> now]

\* archive_generated_test that writes a primary file without the questions
archive_generated_test_without_questions(dir, exam_type, difficulty, topic, questions, now) ==
    LET payload == [exam_type |-> exam_type, difficulty |-> difficulty,
                    topic |-> topic, generated_at_utc |-> now,
                    num_questions |-> Len(questions), questions |-> questions]
    IN  (archive_name(exam_type, difficulty, now)
            :> [primary |-> json_dump(<<>>), meta |-> json_dump_object(payload)])
        @@ dir

\* archive_generated_test: the directory after the primary file and its sibling
\* metadata file are written, both opened with "w"
archive_generated_test(dir, exam_type, difficulty, topic, questions, now) ==
    LET payload == [exam_type |-> exam_type, difficulty |-> difficulty,
                    topic |-> topic, generated_at_utc |-> now,
                    num_questions |-> Len(questions), questions |-> questions]
    IN  (archive_name(exam_type, difficulty, now)
            :> [primary |-> json_dump(questions), meta |-> json_dump_object(payload)])
        @@ dir

\* the loop of generate_questions_for_run over the categories drawn, one per turn:
\* run is [existing_ids, existing_stems, new_questions, generated_bank]
RECURSIVE generate_loop(_, _, _, _, _, _)
generate_loop(exam_type, difficulty, topic, now, picks, run) ==
    IF picks = <<>> THEN run
    ELSE LET cat == Head(picks)
             stem == call_model_to_generate_question(difficulty, cat.label, topic)
             qid == next_generated_id(run.existing_ids, exam_type)
             question_record ==
                 [id |-> qid, exam_type |-> exam_type, topic |-> topic,
                  cbc_category |-> cat.code, difficulty |-> difficulty,
                  text |-> stem, stem |-> stem, created_at_utc |-> now]
         IN  IF is_too_similar(stem, run.existing_stems)
             THEN generate_loop(exam_type, difficulty, topic, now, Tail(picks), run)
             ELSE generate_loop(exam_type, difficulty, topic, now, Tail(picks),
                    [existing_ids |-> run.existing_ids \cup {qid},
                     existing_stems |-> Append(run.existing_stems, stem),
                     new_questions |-> Append(run.new_questions, question_record),
                     generated_bank |-> Append(run.generated_bank, question_record)])

\* the number of turns of the loop: the open-book cap, then the count as it is
effective_count(exam_type, num_questions) ==
    IF exam_type = "open_book" /\ num_questions > OPEN_BOOK_MAX_QUESTIONS
    THEN OPEN_BOOK_MAX_QUESTIONS
    ELSE num_questions

\* generate_questions_for_run that goes on to save and archive a batch of no question
generate_questions_for_run_always_saving(authored_bank, generated_bank, call) ==
    LET d == normalize_difficulty(call.difficulty)
        run == generate_loop(call.exam_type, d, call.topic, call.now, call.picks,
                  [existing_ids |-> collect_existing_ids(authored_bank, generated_bank),
                   existing_stems |-> collect_all_stems(authored_bank, generated_bank),
                   new_questions |-> <<>>,
                   generated_bank |-> generated_bank])
    IN  IF authored_bank = <<>>
        THEN [status |-> "raised", error |-> "FileNotFoundError", difficulty |-> d,
              new_questions |-> <<>>, generated_bank |-> generated_bank]
        ELSE IF d \notin VALID_DIFFICULTIES
        THEN [status |-> "raised", error |-> "ValueError", difficulty |-> d,
              new_questions |-> <<>>, generated_bank |-> generated_bank]
        ELSE IF effective_count(call.exam_type, call.num_questions) <= 0
        THEN [status |-> "raised", error |-> "ValueError", difficulty |-> d,
              new_questions |-> <<>>, generated_bank |-> generated_bank]
        ELSE [status |-> "saved", error |-> NoneVal, difficulty |-> d,
              new_questions |-> run.new_questions,
              generated_bank |-> run.generated_bank]

\* generate_questions_for_run up to the return or the save: the error raised, or the
\* batch and the pool in memory; `call` holds the arguments, the categories drawn
\* and the time
generate_questions_for_run(authored_bank, generated_bank, call) ==
    LET d == normalize_difficulty(call.difficulty)
        run == generate_loop(call.exam_type, d, call.topic, call.now, call.picks,
                  [existing_ids |-> collect_existing_ids(authored_bank, generated_bank),
                   existing_stems |-> collect_all_stems(authored_bank, generated_bank),
                   new_questions |-> <<>>,
                   generated_bank |-> generated_bank])
    IN  IF authored_bank = <<>>
        THEN [status |-> "raised", error |-> "FileNotFoundError", difficulty |-> d,
              new_questions |-> <<>>, generated_bank |-> generated_bank]
        ELSE IF d \notin VALID_DIFFICULTIES
        THEN [status |-> "raised", error |-> "ValueError", difficulty |-> d,
              new_questions |-> <<>>, generated_bank |-> generated_bank]
        ELSE IF effective_count(call.exam_type, call.num_questions) <= 0
        THEN [status |-> "raised", error |-> "ValueError", difficulty |-> d,
              new_questions |-> <<>>, generated_bank |-> generated_bank]
        ELSE [status |-> IF run.new_questions = <<>> THEN "returned" ELSE "saved",
              error |-> NoneVal, difficulty |-> d,
              new_questions |-> run.new_questions,
              generated_bank |-> run.generated_bank]

\* a file that does not exist
Missing == [kind |-> "missing", items |-> <<>>]

\* the topic asked: "Parking"
GenTopics == {<<Uc("parking")>>}

\* the stem of the easy question on "Parking" in the first category, in capital
\* letters and between two blanks
ShoutedStem ==
    <<Blank, Uc("[easy placeholder] "), Uc("parking"), Uc(" question in "),
      Uc("div 2-5/8 site, parking, evcs (f)"),
      Uc(" (replace with model-generated content)."), Blank>>

\* the end of the questions in the second category: 69 characters
LongFragment ==
    <<Uc("div 2-4 accessible routes (g)"),
      Lc(" (replace with model-generated content).")>>

\* a text that holds the easy question on "parking" in the first category
Quotation ==
    <<Lc("stall"), Blank>>
        \o call_model_to_generate_question(
               "easy", Uc("div 2-5/8 site, parking, evcs (f)"), <<Lc("parking")>>)

\* open_book_questions_tagged.json as authored: an empty list; a short stem and a
\* blank one, under ids that look like generated ones; the word "parking" alone;
\* stems close to what the placeholder writes
AuthoredBanks ==
    { <<>>,
      <<[id |-> GenId("gen-ob-", 7, 6), text |-> <<Lc("stall")>>],
        [id |-> DraftId("gen-ob-"), text |-> <<Blank>>]>>,
      <<[id |-> GenId("ob-", 1, 3), text |-> <<Lc("parking")>>]>>,
      <<[id |-> GenId("ob-", 1, 3), text |-> ShoutedStem],
        [id |-> GenId("ob-", 2, 3), text |-> <<>>]>>,
      <<[id |-> GenId("gen-cb-", 3, 1), text |-> LongFragment]>>,
      <<[id |-> GenId("gen-ob-", 1, 1), text |-> Quotation]>> }

GenExamTypes == {"open_book", "closed_book"}
DifficultiesAsked == {" Easy ", "expert"}

\* a generation call: its arguments, the categories drawn by random.choice (one per
\* turn of the loop) and the second it runs in; the calls that fail on their
\* arguments are tried with one topic and no category drawn
GenerationCalls(now) ==
    { [exam_type |-> e, difficulty |-> d, topic |-> <<Uc("parking")>>,
       num_questions |-> n, picks |-> <<>>, now |-> now] :
        e \in GenExamTypes, d \in DifficultiesAsked, n \in {-1, 0} }
    \cup
    { [exam_type |-> e, difficulty |-> "expert", topic |-> <<Uc("parking")>>,
       num_questions |-> 1, picks |-> <<>>, now |-> now] : e \in GenExamTypes }
    \cup
    UNION { { [exam_type |-> e, difficulty |-> " Easy ", topic |-> t,
               num_questions |-> n, picks |-> p, now |-> now] :
                e \in GenExamTypes, t \in GenTopics,
                p \in [1..n -> CASP_CATEGORY_DEFS] } : n \in 1..MaxBatch }

\* the outcome of a call that does not read the pool file
outcome_without_pool(call, authored_file, generated_file) ==
    generate_questions_for_run(load_json_list(authored_file), <<>>, call)

\* the outcome of a call on the files as they are read
outcome(call, authored_file, generated_file) ==
    generate_questions_for_run(load_json_list(authored_file),
                               load_json_list(generated_file), call)

NoCall ==
    [exam_type |-> NoneVal, difficulty |-> NoneVal, topic |-> <<>>,
     num_questions |-> 0, picks |-> <<>>, now |-> 0]
NoOutcome ==
    [status |-> "none", error |-> NoneVal, difficulty |-> NoneVal,
     new_questions |-> <<>>, generated_bank |-> <<>>]
NoRun == [call |-> NoCall, out |-> NoOutcome]

\* the pool file written over a file that is re-read and extended by the batch
persist_merged(generated_file, out) ==
    json_dump(load_json_list(generated_file) \o out.new_questions)

\* save_json_list(GENERATED_BANK_PATH, generated_bank): the pool file after the list
\* in memory is written over it
persist(generated_file, out) == json_dump(out.generated_bank)

\* the calls made side by side: valid arguments
ConcurrentCalls(now) ==
    {call \in GenerationCalls(now) :
        call.difficulty = " Easy " /\ call.num_questions > 0}

\* a caller: its call, the outcome of its loop, where it stands ("idle", or before
\* the "save", or before the "archive"), the second of its archive, and whether the
\* pool file was last written by it
NoCaller ==
    [call |-> NoCall, out |-> NoOutcome, pc |-> "idle", ts |-> 0, last |-> FALSE]

\* the callers that may run a generation side by side
Callers == {1, 2}

-----------------------------------------------------------------------------
(* The `db` handle of a composition or grading call: SessionLocal(), try, finally *)

\* where a call stands: "open" is `db = SessionLocal()`, the query positions are the
\* `.all()` of the handler, "finally" is `db.close()`
QueryPositions ==
    {"query_open", "query_closed", "fallback_open", "fallback_closed", "query",
     "fallback", "mastery"}

\* no call yet: path is the handler ("mixed": build_mixed_exam, "store": the table
\* branch of create_exam, "grade": closed_book_results), got the number of rows of
\* the last two results, empty whether the submission has no answer
NoSession ==
    [path |-> "none", payload |-> NoReq, empty |-> TRUE, pc |-> "idle",
     handle |-> "none", opened |-> 0, closed |-> 0, late |-> 0, failed |-> FALSE,
     got |-> <<0, 0>>, outcome |-> "none"]

\* the requests whose call opens a handle: all but closed test_prep, served from the
\* bank file
HandleRequests ==
    {r \in ExamRequest : ~(r.mode = "closed" /\ r.difficulty = "test_prep")}

\* the clamped count of the table branch
clamped_count_of(payload) ==
    clamp(payload.count, MinQuestions, IF payload.mode = "open" THEN OpenMax ELSE ClosedMax)

\* the number of rows the query at a position returns
rows_found(path, pc, payload, rows) ==
    CASE pc = "query_open" ->
           Size(Limit(query(rows, "open", payload.difficulty),
                      mixed_quota(payload.count).open_count))
      [] pc = "query_closed" ->
           Size(Limit(query(rows, "closed", payload.difficulty),
                      mixed_quota(payload.count).closed_count))
      [] pc = "fallback_open" ->
           Size(Limit(query(rows, "open", NoneVal), mixed_quota(payload.count).open_count))
      [] pc = "fallback_closed" ->
           Size(Limit(query(rows, "closed", NoneVal),
                      mixed_quota(payload.count).closed_count))
      [] pc = "query" /\ path = "store" ->
           Size(Limit(query(rows, payload.mode, payload.difficulty),
                      clamped_count_of(payload)))
      [] pc = "fallback" ->
           Size(Limit(query(rows, payload.mode, NoneVal), clamped_count_of(payload)))
      [] OTHER -> 0

\* the results held after the query at a position
results_after(pc, got, n) ==
    CASE pc \in {"query_open", "fallback_open"} -> <<n, got[2]>>
      [] pc \in {"query_closed", "fallback_closed"} -> <<got[1], n>>
      [] OTHER -> <<n, 0>>

\* the position after a query that returned
after_query(path, pc, payload, got) ==
    CASE pc = "query_open" -> "query_closed"
      [] pc = "query_closed" ->
           IF got = <<0, 0>> /\ payload.difficulty # NoneVal
           THEN "fallback_open" ELSE "check"
      [] pc = "fallback_open" -> "fallback_closed"
      [] pc = "fallback_closed" -> "check"
      [] pc = "query" /\ path = "store" ->
           IF got = <<0, 0>> /\ payload.difficulty # NoneVal
           THEN "fallback" ELSE "finally"
      [] pc = "fallback" -> "finally"
      [] pc = "query" /\ path = "grade" -> "score"
      [] pc = "mastery" -> "finally"

\* an exception that leaves the call at once, the handle as it is
on_exception_unguarded(pc) == "ended"

\* an exception raised in the try block runs the finally block
on_exception(pc) == "finally"

-----------------------------------------------------------------------------
(* Actions of the composer *)

Idle == resp.status = "none"

Init ==
    /\ store = <<>>
    /\ bank = [exists |-> FALSE, items |-> <<>>]
    /\ req = NoReq
    /\ resp = NoResp
    /\ quota = [total |-> 0, open_count |-> 0, closed_count |-> 0]
    /\ cbStore = <<>>
    /\ cbReq = NoCbReq
    /\ cbResp = NoCbResp
    /\ attempt = NoAttempt
    /\ score = NA
    /\ attempts = <<>>
    /\ profCall = NoProfCall
    /\ profScores = <<>>
    /\ proficiency = NA
    /\ answers = <<>>
    /\ result = NoResult
    /\ tagCall = NoTagCall
    /\ tagInput = <<>>
    /\ tagOutput = NoFile
    /\ fromTagger = FALSE
    /\ authoredBank = Missing
    /\ generatedBank = Missing
    /\ archiveDir = <<>>
    /\ utcNow = 0
    /\ genRun = NoRun
    /\ callers = [p \in Callers |-> NoCaller]
    /\ session = NoSession

\* a script commits n rows of one (qtype, difficulty): db.add_all(questions); db.commit()
AddQuestions ==
    /\ Idle
    /\ Len(store) + Len(bank.items) < MaxSetup
    /\ \E c \in InsertCells, n \in {1, BulkRows} :
          store' = Append(store, Run(c, n))
    /\ UNCHANGED <<bank, req, resp, quota, strictVars, scorerVars, historyVars, graderVars,
                 taggerVars,
                   generatorVars, session>>

\* seed_questions.seed: the table is cleared, then 20 open and 20 closed sample rows,
\* the first 10 of each easy and the rest medium
Seed ==
    /\ Idle
    /\ store' = << Run([qtype |-> "open", difficulty |-> "easy"], 10),
                   Run([qtype |-> "open", difficulty |-> "medium"], 10),
                   Run([qtype |-> "closed", difficulty |-> "easy"], 10),
                   Run([qtype |-> "closed", difficulty |-> "medium"], 10) >>
    /\ UNCHANGED <<bank, req, resp, quota, strictVars, scorerVars, historyVars, graderVars,
                 taggerVars,
                   generatorVars, session>>

\* reset_questions: db.query(Question).delete()
ResetQuestions ==
    /\ Idle
    /\ store # <<>>
    /\ store' = <<>>
    /\ UNCHANGED <<bank, req, resp, quota, strictVars, scorerVars, historyVars, graderVars,
                 taggerVars,
                   generatorVars, session>>

\* import_closed_book_from_docx.main: one item per snippet, each with a random
\* difficulty, written over closed_book_questions.json (nothing written for no snippet)
ImportBank ==
    /\ Idle
    /\ \E n \in 1..MaxSetup :
          /\ Len(store) + n <= MaxSetup
          /\ \E items \in [1..n -> BankTags] :
                bank' = [exists |-> TRUE, items |-> items]
    /\ UNCHANGED <<store, req, resp, quota, strictVars, scorerVars, historyVars, graderVars,
                 taggerVars,
                   generatorVars, session>>

\* POST /exam
CreateExam ==
    /\ Idle
    /\ \E payload \in ExamRequest :
          /\ req' = payload
          /\ resp' \in create_exam(store, bank, payload)
    /\ UNCHANGED <<store, bank, quota, strictVars, scorerVars, historyVars, graderVars,
                 taggerVars,
                   generatorVars, session>>

\* the response has been sent; the server waits for the next call
Deliver ==
    /\ ~Idle
    /\ req' = NoReq
    /\ resp' = NoResp
    /\ UNCHANGED <<store, bank, quota, strictVars, scorerVars, historyVars, graderVars,
                 taggerVars,
                   generatorVars, session>>

Next == AddQuestions \/ Seed \/ ResetQuestions \/ ImportBank \/ CreateExam \/ Deliver

Spec == Init /\ [][Next]_vars

-----------------------------------------------------------------------------
(* The quota split on its own, for every total *)

SplitQuota ==
    /\ \E total_count \in (0 - MaxTotal)..MaxTotal :
          quota' = [total |-> total_count,
                    open_count |-> mixed_quota(total_count).open_count,
                    closed_count |-> mixed_quota(total_count).closed_count]
    /\ UNCHANGED <<store, bank, req, resp, strictVars, scorerVars, historyVars, graderVars,
                 taggerVars,
                   generatorVars, session>>

NextQuota == SplitQuota

SpecQuota == Init /\ [][NextQuota]_vars

-----------------------------------------------------------------------------
(* Actions of the strict closed-book builder *)

\* a question of some owner is stored
InsertQuestion ==
    /\ cbResp.status = "none"
    /\ Len(cbStore) < MaxRows
    /\ \E q \in CbQuestion : cbStore' = Append(cbStore, q)
    /\ UNCHANGED <<cbReq, cbResp, store, bank, req, resp, quota, scorerVars, historyVars, graderVars,
                 taggerVars,
                   generatorVars, session>>

\* POST /closed-book/generate
GenerateClosedBookExam ==
    /\ cbResp.status = "none"
    /\ \E r \in CbRequest :
          /\ cbReq' = r
          /\ cbResp' = build_closed_book_exam(cbStore, r.count, r.difficulty, r.user_id)
    /\ UNCHANGED <<cbStore, store, bank, req, resp, quota, scorerVars, historyVars, graderVars,
                 taggerVars,
                   generatorVars, session>>

\* the result has been sent
DeliverClosedBookExam ==
    /\ cbResp.status # "none"
    /\ cbReq' = NoCbReq
    /\ cbResp' = NoCbResp
    /\ UNCHANGED <<cbStore, store, bank, req, resp, quota, scorerVars, historyVars, graderVars,
                 taggerVars,
                   generatorVars, session>>

NextStrict == InsertQuestion \/ GenerateClosedBookExam \/ DeliverClosedBookExam

SpecStrict == Init /\ [][NextStrict]_vars

-----------------------------------------------------------------------------
(* Actions of the scorer *)

\* compute_psychometric_score_for_exam(exam) with the default alpha
ScoreAttempt ==
    /\ attempt = NoAttempt
    /\ \E exam \in ExamAttempt :
          /\ attempt' = exam
          /\ score' = compute_psychometric_score_for_exam(exam, DefaultAlpha)
    /\ UNCHANGED <<store, bank, req, resp, quota, strictVars, historyVars, graderVars,
                 taggerVars,
                   generatorVars, session>>

\* the score has been returned
ReturnScore ==
    /\ attempt # NoAttempt
    /\ attempt' = NoAttempt
    /\ score' = NA
    /\ UNCHANGED <<store, bank, req, resp, quota, strictVars, historyVars, graderVars,
                 taggerVars,
                   generatorVars, session>>

NextScore == ScoreAttempt \/ ReturnScore

SpecScore == Init /\ [][NextScore]_vars

-----------------------------------------------------------------------------
(* Actions of the longitudinal proficiency *)

\* the caller appends an attempt to its list
RecordAttempt ==
    /\ profCall = NoProfCall
    /\ Len(attempts) < MaxAttempts
    /\ \E a \in HistoryAttempts : attempts' = Append(attempts, a)
    /\ UNCHANGED <<profCall, profScores, proficiency>>
    /\ UNCHANGED <<store, bank, req, resp, quota, strictVars, scorerVars, graderVars,
                 taggerVars,
                   generatorVars, session>>

\* compute_psychometric_proficiency_for_type(attempts, exam_type): `filtered` is a new
\* list, so the sort leaves the caller's list as it was
ComputeProficiency ==
    /\ profCall = NoProfCall
    /\ \E exam_type \in ExamTypes :
          /\ profCall' = [attempts |-> attempts, exam_type |-> exam_type]
          /\ profScores' = scores_of(recent_attempts(attempts, exam_type), DefaultAlpha)
          /\ proficiency' =
                compute_psychometric_proficiency_for_type(attempts, exam_type, DefaultAlpha)
    /\ attempts' = attempts
    /\ UNCHANGED <<store, bank, req, resp, quota, strictVars, scorerVars, graderVars,
                 taggerVars,
                   generatorVars, session>>

\* the proficiency has been returned
ReturnProficiency ==
    /\ profCall # NoProfCall
    /\ profCall' = NoProfCall
    /\ profScores' = <<>>
    /\ proficiency' = NA
    /\ UNCHANGED attempts
    /\ UNCHANGED <<store, bank, req, resp, quota, strictVars, scorerVars, graderVars,
                 taggerVars,
                   generatorVars, session>>

NextProficiency == RecordAttempt \/ ComputeProficiency \/ ReturnProficiency

SpecProficiency == Init /\ [][NextProficiency]_vars

-----------------------------------------------------------------------------
(* Actions of the grader *)

\* POST /api/closed-book/test-prep-results
GradeSubmission ==
    /\ result = NoResult
    /\ \E submitted \in Submissions :
          /\ answers' = submitted
          /\ result' = closed_book_results(submitted)
    /\ UNCHANGED <<store, bank, req, resp, quota, strictVars, scorerVars, historyVars,
                 taggerVars,
                   generatorVars, session>>

\* the result has been returned
ReturnResult ==
    /\ result # NoResult
    /\ answers' = <<>>
    /\ result' = NoResult
    /\ UNCHANGED <<store, bank, req, resp, quota, strictVars, scorerVars, historyVars,
                 taggerVars,
                   generatorVars, session>>

NextGrade == GradeSubmission \/ ReturnResult

SpecGrade == Init /\ [][NextGrade]_vars

-----------------------------------------------------------------------------
(* Actions of the tagger *)

\* one turn of the loop of main on a question of the given text
TagText ==
    /\ tagCall = NoTagCall
    /\ \E text \in Texts :
          LET base == estimate_difficulty(text)
          IN  tagCall' = [text |-> text, base |-> base,
                          difficulty |-> IF is_test_prep_candidate(text, base)
                                         THEN "test_prep" ELSE base]
    /\ UNCHANGED <<tagInput, tagOutput, fromTagger>>
    /\ UNCHANGED <<store, bank, req, resp, quota, strictVars, scorerVars, historyVars,
                   graderVars,
                   generatorVars, session>>

\* the loop goes on to the next question
NextQuestion ==
    /\ tagCall # NoTagCall
    /\ tagCall' = NoTagCall
    /\ UNCHANGED <<tagInput, tagOutput, fromTagger>>
    /\ UNCHANGED <<store, bank, req, resp, quota, strictVars, scorerVars, historyVars,
                   graderVars,
                   generatorVars, session>>

NextTagger == TagText \/ NextQuestion

SpecTagger == Init /\ [][NextTagger]_vars

\* a question is authored into open_book_questions.json
AuthorQuestion ==
    /\ ~tagOutput.exists
    /\ ~fromTagger
    /\ Len(tagInput) < MaxBank
    /\ \E q \in BankQuestions : tagInput' = Append(tagInput, q)
    /\ UNCHANGED <<tagCall, tagOutput, fromTagger>>
    /\ UNCHANGED <<store, bank, req, resp, quota, strictVars, scorerVars, historyVars,
                   graderVars,
                   generatorVars, session>>

\* main(): the input file is read, every question tagged, the output file written
RunTagger ==
    /\ ~tagOutput.exists
    /\ tagOutput' = [exists |-> TRUE, questions |-> main(tagInput)]
    /\ UNCHANGED <<tagCall, tagInput, fromTagger>>
    /\ UNCHANGED <<store, bank, req, resp, quota, strictVars, scorerVars, historyVars,
                   graderVars,
                   generatorVars, session>>

\* the tagged file replaces the input file
UseTaggedBank ==
    /\ tagOutput.exists
    /\ tagInput' = tagOutput.questions
    /\ tagOutput' = NoFile
    /\ fromTagger' = TRUE
    /\ UNCHANGED tagCall
    /\ UNCHANGED <<store, bank, req, resp, quota, strictVars, scorerVars, historyVars,
                   graderVars,
                   generatorVars, session>>

NextRetag == AuthorQuestion \/ RunTagger \/ UseTaggedBank

SpecRetag == Init /\ [][NextRetag]_vars

-----------------------------------------------------------------------------
(* Actions of the generator, one call at a time *)

\* the authored bank is put in place
WriteAuthoredBank ==
    /\ authoredBank = Missing
    /\ \E b \in AuthoredBanks : authoredBank' = json_dump(b)
    /\ UNCHANGED <<generatedBank, archiveDir, utcNow, genRun, callers>>
    /\ UNCHANGED <<store, bank, req, resp, quota, strictVars, scorerVars, historyVars,
                   graderVars, taggerVars, session>>

\* a second passes
Tick ==
    /\ utcNow < LastSecond
    /\ utcNow' = utcNow + 1
    /\ UNCHANGED <<authoredBank, generatedBank, archiveDir, genRun, callers>>
    /\ UNCHANGED <<store, bank, req, resp, quota, strictVars, scorerVars, historyVars,
                   graderVars, taggerVars, session>>

\* generate_questions_for_run, from the loading of the banks to the archive
GenerateBatch ==
    /\ \E call \in GenerationCalls(utcNow) :
          LET out == outcome(call, authoredBank, generatedBank)
          IN  /\ genRun' = [call |-> call, out |-> out]
              /\ IF out.status = "saved"
                 THEN /\ generatedBank' = persist(generatedBank, out)
                      /\ archiveDir' =
                            archive_generated_test(archiveDir, call.exam_type,
                                out.difficulty, call.topic, out.new_questions,
                                call.now)
                 ELSE UNCHANGED <<generatedBank, archiveDir>>
    /\ UNCHANGED <<authoredBank, utcNow, callers>>
    /\ UNCHANGED <<store, bank, req, resp, quota, strictVars, scorerVars, historyVars,
                   graderVars, taggerVars, session>>

NextGenerate == WriteAuthoredBank \/ Tick \/ GenerateBatch

SpecGenerate == Init /\ [][NextGenerate]_vars

-----------------------------------------------------------------------------
(* Actions of the generator, two calls side by side *)

\* caller p loads the banks and runs the loop: a call that fails or keeps no candidate
\* has ended
Begin(p) ==
    /\ callers[p].out.status = "none"
    /\ \E call \in ConcurrentCalls(utcNow) :
          LET out == outcome(call, authoredBank, generatedBank)
          IN  callers' = [callers EXCEPT ![p] =
                             [call |-> call, out |-> out,
                              pc |-> IF out.status = "saved" THEN "save" ELSE "idle",
                              ts |-> 0, last |-> FALSE]]
    /\ UNCHANGED <<authoredBank, generatedBank, archiveDir, utcNow, genRun>>
    /\ UNCHANGED <<store, bank, req, resp, quota, strictVars, scorerVars, historyVars,
                   graderVars, taggerVars, session>>

\* caller p writes its pool over the pool file
Save(p) ==
    /\ callers[p].pc = "save"
    /\ generatedBank' = persist(generatedBank, callers[p].out)
    /\ callers' = [q \in Callers |->
                      IF q = p THEN [callers[q] EXCEPT !.pc = "archive", !.last = TRUE]
                      ELSE [callers[q] EXCEPT !.last = FALSE]]
    /\ UNCHANGED <<authoredBank, archiveDir, utcNow, genRun>>
    /\ UNCHANGED <<store, bank, req, resp, quota, strictVars, scorerVars, historyVars,
                   graderVars, taggerVars, session>>

\* caller p writes the archive of its batch
Archive(p) ==
    /\ callers[p].pc = "archive"
    /\ archiveDir' =
          archive_generated_test(archiveDir, callers[p].call.exam_type,
              callers[p].out.difficulty, callers[p].call.topic,
              callers[p].out.new_questions, utcNow)
    /\ callers' = [callers EXCEPT ![p].pc = "idle", ![p].ts = utcNow]
    /\ UNCHANGED <<authoredBank, generatedBank, utcNow, genRun>>
    /\ UNCHANGED <<store, bank, req, resp, quota, strictVars, scorerVars, historyVars,
                   graderVars, taggerVars, session>>

NextConcurrent ==
    \/ WriteAuthoredBank
    \/ Tick
    \/ \E p \in Callers : Begin(p) \/ Save(p) \/ Archive(p)

SpecConcurrent == Init /\ [][NextConcurrent]_vars

-----------------------------------------------------------------------------
(* Actions of a call on its handle *)

\* POST /exam in mixed mode, or in open or closed mode served from the table
BeginComposition ==
    /\ session.pc \in {"idle", "ended"}
    /\ \E payload \in HandleRequests :
          session' = [NoSession EXCEPT
                         !.path = IF payload.mode = "mixed" THEN "mixed" ELSE "store",
                         !.payload = payload, !.pc = "open"]
    /\ UNCHANGED <<store, bank, req, resp, quota, strictVars, scorerVars, historyVars,
                   graderVars, taggerVars, generatorVars>>

\* POST /api/closed-book/test-prep-results, with or without answers
BeginGrading ==
    /\ session.pc \in {"idle", "ended"}
    /\ \E e \in BOOLEAN :
          session' = [NoSession EXCEPT !.path = "grade", !.empty = e, !.pc = "open"]
    /\ UNCHANGED <<store, bank, req, resp, quota, strictVars, scorerVars, historyVars,
                   graderVars, taggerVars, generatorVars>>

\* db = SessionLocal()
OpenHandle ==
    /\ session.pc = "open"
    /\ session' = [session EXCEPT
                      !.handle = "open", !.opened = @ + 1,
                      !.pc = IF session.path = "mixed" THEN "query_open" ELSE "query"]
    /\ UNCHANGED <<store, bank, req, resp, quota, strictVars, scorerVars, historyVars,
                   graderVars, taggerVars, generatorVars>>

\* a query is issued on the handle: it returns its rows, or raises
RunQuery ==
    /\ session.pc \in QueryPositions
    /\ \E ok \in BOOLEAN :
          LET n == rows_found(session.path, session.pc, session.payload, store)
              got == results_after(session.pc, session.got, n)
              late == session.late + IF session.handle = "open" THEN 0 ELSE 1
          IN  session' =
                 IF ok
                 THEN [session EXCEPT
                          !.got = got, !.late = late,
                          !.pc = after_query(session.path, session.pc,
                                             session.payload, got)]
                 ELSE [session EXCEPT
                          !.failed = TRUE, !.late = late,
                          !.outcome = "exception",
                          !.pc = on_exception(session.pc)]
    /\ UNCHANGED <<store, bank, req, resp, quota, strictVars, scorerVars, historyVars,
                   graderVars, taggerVars, generatorVars>>

\* the statements of the try block between and after the queries: the check and the
\* mapping of build_mixed_exam, the scoring loop of closed_book_results and the
\* early return of _compute_closed_book_mastery
Proceed ==
    /\ session.pc \in {"check", "map", "score"}
    /\ session' =
          CASE session.pc = "check" ->
                 IF session.got = <<0, 0>>
                 THEN [session EXCEPT !.failed = TRUE, !.outcome = "HTTPException",
                                      !.pc = on_exception(session.pc)]
                 ELSE [session EXCEPT !.pc = "map"]
            [] session.pc = "map" ->
                 [session EXCEPT !.outcome = "returned", !.pc = "finally"]
            [] session.pc = "score" ->
                 [session EXCEPT !.pc = IF session.empty THEN "finally" ELSE "mastery"]
    /\ UNCHANGED <<store, bank, req, resp, quota, strictVars, scorerVars, historyVars,
                   graderVars, taggerVars, generatorVars>>

\* finally: db.close(); an exception goes on to the caller, build_mixed_exam has
\* returned, the other two handlers go on after the block
CloseHandle ==
    /\ session.pc = "finally"
    /\ session' = [session EXCEPT
                      !.handle = "closed", !.closed = @ + 1,
                      !.pc = IF session.failed \/ session.path = "mixed"
                             THEN "ended" ELSE "respond"]
    /\ UNCHANGED <<store, bank, req, resp, quota, strictVars, scorerVars, historyVars,
                   graderVars, taggerVars, generatorVars>>

\* after the block: create_exam raises "No questions available" or maps and returns,
\* closed_book_results returns its result
Respond ==
    /\ session.pc = "respond"
    /\ session' = [session EXCEPT
                      !.outcome = IF session.path = "store" /\ session.got = <<0, 0>>
                                  THEN "HTTPException" ELSE "returned",
                      !.pc = "ended"]
    /\ UNCHANGED <<store, bank, req, resp, quota, strictVars, scorerVars, historyVars,
                   graderVars, taggerVars, generatorVars>>

NextHandle ==
    \/ Seed
    \/ ResetQuestions
    \/ BeginComposition
    \/ BeginGrading
    \/ OpenHandle
    \/ RunQuery
    \/ Proceed
    \/ CloseHandle
    \/ Respond

SpecHandle == Init /\ [][NextHandle]_vars

-----------------------------------------------------------------------------
(* Properties of the composer *)

AnyDifficulty == Difficulties \cup {NoneVal}

RECURSIVE CountWhere(_, _, _)
\* number of rows of a table (or questions of a response) with a kind in K and a difficulty in D
CountWhere(rows, K, D) ==
    IF rows = <<>> THEN 0
    ELSE (IF Head(rows).cell.qtype \in K /\ Head(rows).cell.difficulty \in D
          THEN Head(rows).n ELSE 0) + CountWhere(Tail(rows), K, D)

Returned == CountWhere(resp.questions, Kinds, AnyDifficulty)

Answered == resp.status # "none"
Succeeded == resp.status = "ok"

\* the count a standalone request asks for, once clamped
Requested ==
    IF req.count < 1 THEN 1
    ELSE IF req.mode = "open" /\ req.count > 40 THEN 40
    ELSE IF req.mode = "closed" /\ req.count > 60 THEN 60
    ELSE req.count

FromBank == req.mode = "closed" /\ req.difficulty = "test_prep"
FromStore == req.mode \in Kinds /\ ~FromBank

\* positions of the test_prep items of the authored file
TestPrepPool == {i \in 1..Len(bank.items) : bank.items[i] = "test_prep"}

\* C1: in mixed mode, for every requested total N >= 2 the open and closed sub-quotas
\* are each at least 1 and sum to exactly N
QuotaSplitsTotal ==
    quota.total >= 2 =>
        /\ quota.open_count >= 1
        /\ quota.closed_count >= 1
        /\ quota.open_count + quota.closed_count = quota.total

\* the smallest total of the claim has been split, one question each
QuotaSplitOfTwo ==
    quota.total = 2 /\ quota.open_count = 1 /\ quota.closed_count = 1

\* C2: in every mode a call either returns at least one question or fails with an
\* explicit error; no successful response holds zero questions
NeverEmptyExam ==
    /\ resp.status \in {"none", "ok", "error"}
    /\ Succeeded => Returned >= 1 /\ resp.count >= 1
    /\ resp.status = "error" =>
          /\ resp.code \in {400, 500}
          /\ resp.detail # ""
          /\ resp.questions = <<>>

\* a call against a store that holds questions, none of the requested kind, was rejected
EmptyKindRejected ==
    /\ resp.status = "error"
    /\ req.mode = "open"
    /\ req.difficulty # NoneVal
    /\ store # <<>>

\* C3: standalone counts are clamped, not rejected: a successful open response has
\* 1 <= effective count <= 40, a successful closed one 1 <= effective count <= 60, and
\* {mode: open, count: 50} against at least 40 open questions gives effective count 40
CountClamped ==
    /\ Succeeded /\ req.mode = "open" =>
          resp.count >= 1 /\ resp.count <= 40 /\ Returned <= 40
    /\ Succeeded /\ req.mode = "closed" =>
          resp.count >= 1 /\ resp.count <= 60 /\ Returned <= 60
    /\ ( /\ Answered
         /\ req.mode = "open" /\ req.count = 50 /\ req.difficulty = NoneVal
         /\ CountWhere(store, {"open"}, AnyDifficulty) >= 40 )
       => Succeeded /\ resp.count = 40 /\ Returned = 40

\* {mode: open, count: 50} was answered from more than 40 open questions
OpenFiftyClampedToForty ==
    /\ Succeeded
    /\ req.mode = "open" /\ req.count = 50 /\ req.difficulty = NoneVal
    /\ CountWhere(store, {"open"}, AnyDifficulty) > 40
    /\ resp.count = 40

\* C4: closed + test_prep is served only from the authored file: effective count
\* min(clamp(count, 1, 60), number of test_prep items), every question closed and
\* test_prep-tagged, no item twice; a missing file or an empty pool is an explicit error
TestPrepFromBank ==
    (Answered /\ FromBank) =>
        IF ~bank.exists THEN resp.status = "error" /\ resp.code = 500
        ELSE IF TestPrepPool = {} THEN resp.status = "error" /\ resp.code = 400
        ELSE /\ Succeeded
             /\ resp.mode = "closed"
             /\ resp.count = Min(Requested, Cardinality(TestPrepPool))
             /\ Len(resp.items) = resp.count
             /\ Len(resp.questions) = resp.count
             /\ \A i \in 1..Len(resp.items) : resp.items[i] \in TestPrepPool
             /\ \A i, j \in 1..Len(resp.items) : i # j => resp.items[i] # resp.items[j]
             /\ \A i \in 1..Len(resp.questions) :
                   resp.questions[i] = Run([qtype |-> "closed", difficulty |-> "test_prep"], 1)

\* count 10 against an authored test_prep pool of 3 gave effective count 3
TenFromPoolOfThree ==
    /\ Succeeded /\ FromBank
    /\ req.count = 10
    /\ Cardinality(TestPrepPool) = 3
    /\ resp.count = 3

\* C5: a store-served open or closed request with a difficulty fails with "No questions
\* available" exactly when the store holds no question of the kind; when only the
\* difficulty match is missing, it succeeds from the kind-only filter
DifficultyFallback ==
    (Answered /\ FromStore /\ req.difficulty # NoneVal) =>
        LET ofKind == CountWhere(store, {req.mode}, AnyDifficulty)
            ofBoth == CountWhere(store, {req.mode}, {req.difficulty})
        IN  /\ (resp.status = "error") <=> (ofKind = 0)
            /\ resp.status = "error" => resp.detail = "No questions available"
            /\ (ofBoth = 0 /\ ofKind > 0) =>
                  /\ Succeeded
                  /\ Returned = Min(Requested, ofKind)
                  /\ CountWhere(resp.questions, {req.mode}, AnyDifficulty) = Returned

\* a request whose difficulty matches no row of a non-empty kind pool succeeded
FellBackToKind ==
    /\ Succeeded /\ FromStore /\ req.difficulty = "easy"
    /\ CountWhere(store, {req.mode}, {"easy"}) = 0
    /\ CountWhere(resp.questions, {req.mode}, {"hard"}) >= 1

\* rows of a kind (and difficulties D) that LIMIT n lets through
Within(n, kind, D) ==
    LET have == CountWhere(store, {kind}, D)
    IN  IF n < 0 THEN have ELSE Min(n, have)

\* C6: in mixed mode with a difficulty the fallback is all-or-nothing: both sub-pools are
\* re-queried unfiltered exactly when both filtered results are empty; otherwise
\* neither is replaced and every returned question has the requested difficulty
MixedFallbackAllOrNothing ==
    (Answered /\ req.mode = "mixed" /\ req.difficulty # NoneVal) =>
        LET nOpen      == RoundHalfEven(4 * req.count, 10)
            open_n     == IF req.count >= 2 /\ nOpen = 0 THEN 1 ELSE nOpen
            closed_n   == req.count - open_n
            openHits   == Within(open_n, "open", {req.difficulty})
            closedHits == Within(closed_n, "closed", {req.difficulty})
            bothEmpty  == openHits = 0 /\ closedHits = 0
        IN  /\ resp.fallback <=> bothEmpty
            /\ bothEmpty =>
                  /\ CountWhere(resp.questions, {"open"}, AnyDifficulty)
                        = Within(open_n, "open", AnyDifficulty)
                  /\ CountWhere(resp.questions, {"closed"}, AnyDifficulty)
                        = Within(closed_n, "closed", AnyDifficulty)
            /\ ~bothEmpty =>
                  /\ Succeeded
                  /\ CountWhere(resp.questions, {"open"}, AnyDifficulty) = openHits
                  /\ CountWhere(resp.questions, {"closed"}, AnyDifficulty) = closedHits
                  /\ CountWhere(resp.questions, Kinds, {req.difficulty}) = Returned

\* one filtered sub-pool was empty, the other not: the exam kept the filter
OneSubPoolEmptyKeptFilter ==
    /\ Succeeded /\ req.mode = "mixed" /\ req.difficulty = "easy" /\ req.count >= 2
    /\ CountWhere(store, {"open"}, {"easy"}) >= 1
    /\ CountWhere(store, {"closed"}, {"easy"}) = 0
    /\ CountWhere(store, {"closed"}, AnyDifficulty) >= 1
    /\ ~resp.fallback

\* C7: in mixed mode with total >= 2, when the store holds at least one open and one
\* closed question, the exam holds at least one open and one closed question
MixedHasBothKinds ==
    ( /\ Succeeded /\ req.mode = "mixed" /\ req.count >= 2
      /\ CountWhere(store, {"open"}, AnyDifficulty) >= 1
      /\ CountWhere(store, {"closed"}, AnyDifficulty) >= 1 )
    => /\ CountWhere(resp.questions, {"open"}, AnyDifficulty) >= 1
       /\ CountWhere(resp.questions, {"closed"}, AnyDifficulty) >= 1

\* C8 as stated: a successful call returns exactly the requested (clamped) number of
\* questions, never fewer
ExactCountOrError ==
    Succeeded => Returned = (IF req.mode = "mixed" THEN req.count ELSE Requested)

\* C8: a call of POST /exam returns between 1 and the requested (clamped)
\* number of questions and reports that number as the effective count (in mixed mode:
\* for a requested total >= 1), or fails with one of the explicit errors; a pool that
\* holds fewer questions than requested gives a shorter exam, not an error
AtMostRequestedOrError ==
    /\ (Succeeded /\ req.mode \in Kinds) =>
          Returned >= 1 /\ Returned <= Requested /\ resp.count = Returned
    /\ (Succeeded /\ req.mode = "mixed" /\ req.count >= 1) =>
          Returned >= 1 /\ Returned <= req.count /\ resp.count = Returned
    /\ resp.status = "error" =>
          resp.detail \in { "No questions available",
                            "No questions available for requested difficulty/mode mix",
                            "No closed-book test prep questions available in JSON bank",
                            "Closed-book question bank not found" }

\* a call succeeded with fewer questions than it asked for
ShorterExamReturned ==
    /\ Succeeded /\ req.mode = "closed" /\ req.count = 10
    /\ Returned < 10
    /\ resp.count = Returned

-----------------------------------------------------------------------------
(* Properties of the strict closed-book builder *)

\* ids of the caller's closed-book questions that match the request
CbMatching ==
    {i \in 1..Len(cbStore) :
        /\ ~cbStore[i].is_open_book
        /\ cbStore[i].owner_id = cbReq.user_id
        /\ (cbReq.difficulty \in {"easy", "hard"} => cbStore[i].difficulty = cbReq.difficulty)}

\* C9: for every count >= 1 the strict builder returns exactly count questions, all
\* closed-book, owned by the caller and of the requested difficulty when one is given,
\* or raises an error stating the difficulty, the requested and the found count; it
\* never returns a partial result and never falls back to another difficulty
StrictOrFail ==
    (cbResp.status # "none" /\ cbReq.count >= 1) =>
        IF Cardinality(CbMatching) >= cbReq.count
        THEN /\ cbResp.status = "ok"
             /\ Len(cbResp.questions) = cbReq.count
             /\ \A i \in 1..Len(cbResp.questions) :
                   /\ cbResp.questions[i].id \in CbMatching
                   /\ ~cbResp.questions[i].is_open_book
                   /\ cbResp.questions[i].owner_id = cbReq.user_id
                   /\ cbReq.difficulty \in {"easy", "hard"} =>
                         cbResp.questions[i].difficulty = cbReq.difficulty
             /\ \A i, j \in 1..Len(cbResp.questions) :
                   i < j => cbResp.questions[i].id < cbResp.questions[j].id
        ELSE /\ cbResp.status = "error"
             /\ cbResp.code = 400
             /\ cbResp.questions = <<>>
             /\ cbResp.detail.requested = cbReq.count
             /\ cbResp.detail.found = Cardinality(CbMatching)
             /\ cbResp.detail.difficulty =
                   (IF cbReq.difficulty \in {"easy", "hard"} THEN cbReq.difficulty ELSE "ANY")

\* a request for 2 easy questions failed with 1 found, although the caller owns
\* another closed-book question of a different difficulty
ShortfallNotFilledFromOtherDifficulty ==
    /\ cbResp.status = "error"
    /\ cbReq.count = 2 /\ cbReq.difficulty = "easy"
    /\ cbResp.detail.found = 1
    /\ \E i \in 1..Len(cbStore) :
          /\ ~cbStore[i].is_open_book
          /\ cbStore[i].owner_id = cbReq.user_id
          /\ cbStore[i].difficulty = "hard"

-----------------------------------------------------------------------------
(* Properties of the scorer *)

\* C10: the score is N/A for every attempt whose mode is not test-prep and for every
\* attempt whose total_questions is <= 0, whatever the exam type, the correct count and
\* the domain data
ScoreNotApplicable ==
    (attempt # NoAttempt /\ (attempt.mode # "test_prep" \/ attempt.total_questions <= 0))
        => score.na

\* an official-like closed-book attempt with questions and domain data scored N/A
OfficialLikeNotScored ==
    /\ attempt.mode = "official_like"
    /\ attempt.exam_type = "closed_book"
    /\ attempt.total_questions > 0
    /\ attempt.domains # <<>>
    /\ score.na

-----------------------------------------------------------------------------
(* Claims on the scorer's range, composite and proficiency *)

InRange(x) == FLe(Frac(0, 1), x) /\ FLe(x, Frac(100, 1))

\* a proficiency call has been answered and not yet returned
ProficiencyAnswered == profCall # NoProfCall

\* C11: every single-attempt score and every proficiency that is not N/A lies in
\* [0, 100], whatever the integers of the attempts: correct counts above the
\* total, negative correct counts, domain correct counts above the domain's questions.
ScoresWithinRange ==
    /\ \A i \in 1..Len(profScores) : InRange(profScores[i])
    /\ ~proficiency.na => InRange(proficiency.val)

\* C11 witness: a proficiency over an attempt with 3 correct of 1 (in total and in its
\* domain) and an attempt with -1 correct of 2, both scored.
OverAndUnderCountsScored ==
    /\ ProficiencyAnswered
    /\ Len(profCall.attempts) = 2
    /\ Len(profScores) = 2
    /\ ~proficiency.na
    /\ \E i \in 1..2 :
          /\ profCall.attempts[i].total_correct > profCall.attempts[i].total_questions
          /\ \E k \in 1..Len(profCall.attempts[i].domains) :
                profCall.attempts[i].domains[k].correct_in_domain
                    > profCall.attempts[i].domains[k].questions_in_domain
    /\ \E i \in 1..2 : profCall.attempts[i].total_correct < 0

\* the answers of the graded submission given to questions of domain d
AnswersIn(d) ==
    {i \in 1..Len(answers) :
        answers[i].topic # NoneVal /\ infer_domain_from_topic(answers[i].topic) = d}

\* the weighted domains with at least one answered question
PresentDomains == {d \in DOMAIN DOMAIN_WEIGHTS : AnswersIn(d) # {}}

\* correct answers of domain d, in percent of its answered questions
DomainPercent(d) ==
    Frac(100 * SumN(answers, {i \in AnswersIn(d) : answers[i].right}),
         SumN(answers, AnswersIn(d)))

RECURSIVE MeanParts(_)
\* <<sum of weight x percent, sum of weight>> over the domains D (weights x 10000)
MeanParts(D) ==
    IF D = {} THEN <<Frac(0, 1), 0>>
    ELSE LET d    == CHOOSE x \in D : TRUE
             rest == MeanParts(D \ {d})
         IN  <<FAdd(FMul(Frac(DOMAIN_WEIGHTS[d], 1), DomainPercent(d)), rest[1]),
               DOMAIN_WEIGHTS[d] + rest[2]>>

\* C12: the mastery of a graded submission is the weighted mean of the per-domain
\* percentages over the weighted domains that have at least one answered question,
\* the weights renormalized over those domains (cbc_scoping 10/10 and housing 0/5
\* give (0.40 x 100 + 0.20 x 0) / 0.60 = 66.7).
MasteryIsWeightedMean ==
    (result # NoResult /\ PresentDomains # {}) =>
        result.psychometric_score =
            FDiv(MeanParts(PresentDomains)[1], Frac(MeanParts(PresentDomains)[2], 1))

\* the attempt being scored is a test-prep attempt with questions, of an exam type
\* that has a weight table
Scorable ==
    /\ attempt # NoAttempt
    /\ attempt.mode = "test_prep"
    /\ attempt.total_questions > 0
    /\ attempt.exam_type \in {"closed_book", "open_book"}

TableOfAttempt ==
    IF attempt.exam_type = "closed_book" THEN CLOSED_BOOK_WEIGHTS ELSE OPEN_BOOK_WEIGHTS

\* the domain results of the attempt that have at least one question
WithQuestions == {i \in 1..Len(attempt.domains) : attempt.domains[i].questions_in_domain > 0}

ScoredDomains == {attempt.domains[i].domain_code : i \in WithQuestions}

\* the percentage of a domain (of its last result, when the list names it twice)
PercentOfDomain(c) ==
    LET i == CHOOSE k \in WithQuestions :
                /\ attempt.domains[k].domain_code = c
                /\ \A j \in WithQuestions : attempt.domains[j].domain_code = c => j <= k
    IN  Frac(100 * attempt.domains[i].correct_in_domain, attempt.domains[i].questions_in_domain)

RECURSIVE CompositeParts(_)
\* <<sum of weight x percent, sum of weight>> over the domains D (weights x 100)
CompositeParts(D) ==
    IF D = {} THEN <<Frac(0, 1), 0>>
    ELSE LET d    == CHOOSE x \in D : TRUE
             rest == CompositeParts(D \ {d})
         IN  <<FAdd(FMul(Frac(TableOfAttempt[d], 1), PercentOfDomain(d)), rest[1]),
               TableOfAttempt[d] + rest[2]>>

\* the domains present in the attempt and in the weight table
InBoth == ScoredDomains \cap DOMAIN TableOfAttempt

CompositeOfAttempt ==
    FDiv(CompositeParts(InBoth)[1], Frac(CompositeParts(InBoth)[2], 1))

RawPercentOfAttempt == Frac(100 * attempt.total_correct, attempt.total_questions)

Clamped(x) ==
    IF FLe(x, Frac(0, 1)) THEN Frac(0, 1)
    ELSE IF FLe(Frac(100, 1), x) THEN Frac(100, 1) ELSE x

\* C13: a test-prep attempt with questions, of an exam type with a weight table, scores
\* clamp(0.4 x rawPercent + 0.6 x composite, 0, 100); with no domain that has a
\* question, or with none of its domains in the weight table, it scores
\* clamp(rawPercent, 0, 100).
BlendOfRawAndComposite ==
    Scorable =>
        /\ ~score.na
        /\ score.val =
              IF InBoth = {} THEN Clamped(RawPercentOfAttempt)
              ELSE Clamped(FAdd(FMul(Frac(4, 10), RawPercentOfAttempt),
                                FMul(Frac(6, 10), CompositeOfAttempt)))

\* C13 witness: closed-book test-prep attempt, 1 of 2 correct (raw 50), CBC_ADAAG 1/1
\* and HOUSING 0/2 (composite (0.30 x 100 + 0.20 x 0) / 0.50 = 60): score 56.
BlendedScoreOfFiftySix ==
    /\ Scorable
    /\ attempt.exam_type = "closed_book"
    /\ RawPercentOfAttempt = Frac(50, 1)
    /\ ScoredDomains = {"CBC_ADAAG", "HOUSING"}
    /\ CompositeOfAttempt = Frac(60, 1)
    /\ score = Some(Frac(56, 1))

RECURSIVE TableSum(_, _)
\* the sum of the weights of the domains D of a table, in the table's unit
TableSum(table, D) ==
    IF D = {} THEN 0
    ELSE LET d == CHOOSE x \in D : TRUE IN table[d] + TableSum(table, D \ {d})

\* weights of a table lie in [0, 1] and sum to exactly 1 (unit: what 1.0 is in the table)
SumsToOne(table, unit) ==
    /\ \A d \in DOMAIN table : table[d] \in 0..unit
    /\ TableSum(table, DOMAIN table) = unit

\* C14: the weight table an operation scores with (the scorer's closed-book or
\* open-book table, in hundredths; the grading endpoint's DOMAIN_WEIGHTS, in
\* ten-thousandths) has every weight in [0, 1] and weights that sum to exactly 1.
WeightTablesSumToOne ==
    /\ (attempt # NoAttempt /\ attempt.exam_type \in {"closed_book", "open_book"}) =>
            SumsToOne(get_weights_for_exam_type(attempt.exam_type), 100)
    /\ ProficiencyAnswered =>
            SumsToOne(CLOSED_BOOK_WEIGHTS, 100) /\ SumsToOne(OPEN_BOOK_WEIGHTS, 100)
    /\ result # NoResult => SumsToOne(DOMAIN_WEIGHTS, 10000)

\* the test-prep attempts of the exam type asked for, by their place in the list passed
OfTypeAsked ==
    {i \in 1..Len(profCall.attempts) :
        /\ profCall.attempts[i].exam_type = profCall.exam_type
        /\ profCall.attempts[i].mode = "test_prep"}

\* older than the third most recent: three attempts of OfTypeAsked are strictly later
OlderThanThird(i) ==
    Cardinality({j \in OfTypeAsked :
                    profCall.attempts[j].taken_at > profCall.attempts[i].taken_at}) >= 3

RECURSIVE ListAt(_, _)
\* the elements of the list at the indices I, in list order
ListAt(list, I) ==
    IF I = {} THEN <<>>
    ELSE LET last == CHOOSE i \in I : \A j \in I : j <= i
         IN  Append(ListAt(list, I \ {last}), list[last])

\* the list passed, without the attempts of another exam type or mode and without the
\* attempts older than the third most recent
RecentOfTypeOnly ==
    ListAt(profCall.attempts, {i \in OfTypeAsked : ~OlderThanThird(i)})

\* C15: the proficiency is N/A when the list holds no test-prep attempt of the exam
\* type; it is the proficiency of the list without its attempts of another exam type,
\* its attempts that are not test-prep and its attempts older than the third most
\* recent of the type; and the caller's list is as it was passed.
DependsOnRecentOfTypeOnly ==
    ProficiencyAnswered =>
        /\ OfTypeAsked = {} => proficiency.na
        /\ proficiency = compute_psychometric_proficiency_for_type(
                              RecentOfTypeOnly, profCall.exam_type, DefaultAlpha)
        /\ attempts = profCall.attempts

\* C15 witness: a list of four with a late open-book attempt, a late official-like
\* attempt and two closed-book test-prep attempts; closed-book proficiency of the two.
OtherAttemptsIgnored ==
    /\ ProficiencyAnswered
    /\ profCall.exam_type = "closed_book"
    /\ Len(profCall.attempts) = 4
    /\ Cardinality(OfTypeAsked) = 2
    /\ \E i \in 1..4 : profCall.attempts[i].exam_type = "open_book"
    /\ \E i \in 1..4 : profCall.attempts[i].mode = "official_like"
    /\ Len(profScores) = 2
    /\ proficiency = Some(Frac(60, 1))

\* the attempts of OfTypeAsked that come after attempt i in time (in the list, on a tie)
LaterThan(i) ==
    {j \in OfTypeAsked :
        \/ profCall.attempts[j].taken_at > profCall.attempts[i].taken_at
        \/ (profCall.attempts[j].taken_at = profCall.attempts[i].taken_at /\ j > i)}

\* the at most 3 most recent attempts
KeptAttempts == {i \in OfTypeAsked : Cardinality(LaterThan(i)) < 3}

\* the single-attempt score of attempt i of the list passed
ScoreOfAttempt(i) == compute_psychometric_score_for_exam(profCall.attempts[i], DefaultAlpha)

\* the recency weights of one, two and three attempts, oldest first
ClaimedWeights(n) ==
    IF n = 1 THEN <<Frac(1, 1)>>
    ELSE IF n = 2 THEN <<Frac(375, 1000), Frac(625, 1000)>>
    ELSE <<Frac(2, 10), Frac(3, 10), Frac(5, 10)>>

RECURSIVE ClaimedSum(_, _)
\* sum over the attempts I of weight x score, the weights being those of n attempts and
\* an attempt's weight the one of its place counted from the newest
ClaimedSum(I, n) ==
    IF I = {} THEN Frac(0, 1)
    ELSE LET i == CHOOSE x \in I : TRUE
         IN  FAdd(FMul(ClaimedWeights(n)[n - Cardinality(LaterThan(i) \cap KeptAttempts)],
                       ScoreOfAttempt(i).val),
                  ClaimedSum(I \ {i}, n))

\* C16: when every kept attempt has a score, the proficiency is the sum of the kept
\* attempts' scores in ascending time order weighted [1.0] for one attempt,
\* [0.375, 0.625] for two and [0.2, 0.3, 0.5] for three.
RecencyWeightedSum ==
    (/\ ProficiencyAnswered
     /\ KeptAttempts # {}
     /\ \A i \in KeptAttempts : ~ScoreOfAttempt(i).na) =>
        proficiency = Some(ClaimedSum(KeptAttempts, Cardinality(KeptAttempts)))

\* C16 witness: the list holds the attempt scoring 60 (time 2) before the attempt
\* scoring 80 (time 1): 0.375 x 80 + 0.625 x 60 = 67.5.
EightyThenSixty ==
    /\ ProficiencyAnswered
    /\ Len(profCall.attempts) = 2
    /\ KeptAttempts = {1, 2}
    /\ profCall.attempts[1].taken_at = 2 /\ ScoreOfAttempt(1) = Some(Frac(60, 1))
    /\ profCall.attempts[2].taken_at = 1 /\ ScoreOfAttempt(2) = Some(Frac(80, 1))
    /\ proficiency = Some(Frac(135, 2))

\* the kept attempts that have a score
Survivors == {i \in KeptAttempts : ~ScoreOfAttempt(i).na}

RECURSIVE SurvivorSum(_)
\* sum over the survivors I of weight x score, the weights being those of the surviving
\* count and a survivor's weight the one of its place among the survivors
SurvivorSum(I) ==
    IF I = {} THEN Frac(0, 1)
    ELSE LET i == CHOOSE x \in I : TRUE
             n == Cardinality(Survivors)
         IN  FAdd(FMul(ClaimedWeights(n)[n - Cardinality(LaterThan(i) \cap Survivors)],
                       ScoreOfAttempt(i).val),
                  SurvivorSum(I \ {i}))

\* C17: when some kept attempt has no score, the proficiency is N/A if no attempt
\* survives, and otherwise the sum of the surviving scores weighted by the right-aligned
\* tail of [0.2, 0.3, 0.5] of the surviving count renormalized to sum 1
\* ([0.375, 0.625] for two survivors, [1.0] for one).
SurvivorsReweighted ==
    (ProficiencyAnswered /\ Survivors # KeptAttempts) =>
        IF Survivors = {} THEN proficiency.na
        ELSE proficiency = Some(SurvivorSum(Survivors))

-----------------------------------------------------------------------------
(* Claims on the tagger *)

\* a text has been tagged and the loop has not moved on
Tagged == tagCall # NoTagCall

\* the first-match-wins rules over the signals of a text
ClaimedBase(text) ==
    IF \/ text.length > 350
       \/ text.refs >= 4
       \/ (text.scenario /\ text.examy)
       \/ (text.scenario /\ text.refs >= 2)
    THEN "hard"
    ELSE IF text.length < 140 /\ text.refs <= 1 /\ ~text.scenario /\ ~text.listy
    THEN "easy"
    ELSE IF \/ (text.length > 260 /\ (text.scenario \/ text.refs >= 2))
            \/ (text.listy /\ (text.scenario \/ text.refs >= 2))
    THEN "hard"
    ELSE "medium"

\* C18 as stated: for every text, of length 0 included, the base difficulty is the
\* first match of (1) hard, (2) easy, (3) hard, (4) medium over its signals.
BaseByFirstMatch ==
    Tagged => tagCall.base = ClaimedBase(tagCall.text)

\* C18 amended: for every text but the empty string the base difficulty is the first
\* match of the rules over the signals of the stripped text (a text of white space
\* only has length 0 and is easy); the empty string is medium.
BaseByFirstMatchUnlessEmpty ==
    Tagged =>
        tagCall.base = IF tagCall.text.empty THEN "medium" ELSE ClaimedBase(tagCall.text)

\* C18 witness: the empty string has been tagged, and is medium.
EmptyTextIsMedium ==
    /\ Tagged
    /\ tagCall.text.empty
    /\ tagCall.base = "medium"

\* the upgrade conditions over the signals of a text
ClaimedUpgrade(text) ==
    \/ text.packet
    \/ (text.length > 340 /\ text.scenario /\ text.refs >= 2)
    \/ (text.length > 260 /\ text.scenario /\ text.examy /\ text.refs >= 2)
    \/ (text.scenario /\ text.examy /\ text.refs >= 3)

\* C19: the base difficulty is never test_prep; a text whose base is easy or medium
\* keeps it, packet marker or not; a hard text is tagged test_prep exactly when one of
\* the upgrade conditions holds, and hard otherwise.
TestPrepOnlyByUpgrade ==
    Tagged =>
        /\ tagCall.base \in {"easy", "medium", "hard"}
        /\ tagCall.base # "hard" => tagCall.difficulty = tagCall.base
        /\ tagCall.base = "hard" =>
              tagCall.difficulty =
                  IF ClaimedUpgrade(tagCall.text) THEN "test_prep" ELSE "hard"

\* C19 witness: an easy text that carries a packet marker has been tagged easy.
PacketMarkerOnEasyText ==
    /\ Tagged
    /\ tagCall.text.packet
    /\ tagCall.base = "easy"
    /\ tagCall.difficulty = "easy"

\* the (difficulty, category) of question i of the tagged file
TaggedPair(i) ==
    <<tagOutput.questions[i].difficulty, tagOutput.questions[i].category>>

\* C20: tagging a bank that is a tagged output writes the same bank again, and two
\* questions of the same text (and category as authored) get the same
\* (difficulty, category) whatever difficulty they carried.
TaggingIdempotent ==
    tagOutput.exists =>
        /\ fromTagger => tagOutput.questions = tagInput
        /\ \A i, j \in 1..Len(tagInput) :
              (tagInput[i].text = tagInput[j].text
                  /\ tagInput[i].category = tagInput[j].category)
                  => TaggedPair(i) = TaggedPair(j)

\* C20 witness: a tagged bank with a test_prep question and a question left
\* UNASSIGNED has been tagged again.
RetaggedBank ==
    /\ fromTagger
    /\ tagOutput.exists
    /\ Len(tagInput) = 2
    /\ tagInput[1].difficulty = "test_prep"
    /\ tagInput[2].category = "UNASSIGNED"
    /\ tagOutput.questions = tagInput

\* the keyword families in the order site/parking, routes, plumbing,
\* signage/communication, built-ins, each by its category
FamilyOrder == <<"11B-5/8", "11B-4", "11B-6", "11B-7", "11B-9">>

\* the category of the first family that matches a text, UNASSIGNED when none does
ClaimedCategory(text) ==
    IF \A i \in 1..Len(FamilyOrder) : FamilyOrder[i] \notin text.keywords
    THEN "UNASSIGNED"
    ELSE FamilyOrder[CHOOSE i \in 1..Len(FamilyOrder) :
                        /\ FamilyOrder[i] \in text.keywords
                        /\ \A j \in 1..(i - 1) : FamilyOrder[j] \notin text.keywords]

\* question i of the tagged file is question i of the input file
SameQuestions ==
    /\ Len(tagOutput.questions) = Len(tagInput)
    /\ \A i \in 1..Len(tagInput) : tagOutput.questions[i].text = tagInput[i].text

\* C21 as stated: the tagged file holds every question of the input file in its order,
\* and every stored category is one of the five valid codes or UNASSIGNED: a valid
\* category kept, any other replaced by the first matching family, or UNASSIGNED.
CategoryEnsured ==
    tagOutput.exists =>
        /\ SameQuestions
        /\ \A i \in 1..Len(tagInput) :
              /\ tagOutput.questions[i].category
                    \in VALID_OPEN_BOOK_CATEGORIES \cup {"UNASSIGNED"}
              /\ tagOutput.questions[i].category =
                    IF tagInput[i].category \in VALID_OPEN_BOOK_CATEGORIES
                    THEN tagInput[i].category
                    ELSE ClaimedCategory(tagInput[i].text)

-----------------------------------------------------------------------------
(* Claims on the generator *)

\* the persisted pool, the batch of the call made last and the pool before that call
Pool == load_json_list(generatedBank)
Batch == genRun.out.new_questions
PoolBefore == SubSeq(Pool, 1, Len(Pool) - Len(Batch))
Authored == load_json_list(authoredBank)
Completed == genRun.out.status \in {"saved", "returned"}

\* the stems of a list of questions
StemsOf(questions) == [i \in 1..Len(questions) |-> questions[i].text]

\* a candidate is a near-duplicate of an existing stem (a text that is not blank):
\* equal once trimmed and case-folded, or of 40 characters at least and one inside
\* the other
NearDuplicate(stem, existing) ==
    LET c == lower(strip_str(stem))
    IN  \E i \in 1..Len(existing) :
           LET e == lower(strip_str(existing[i]))
           IN  /\ e # <<>>
               /\ \/ c = e
                  \/ (len(c) >= 40 /\ (in_str(c, e) \/ in_str(e, c)))

\* the candidates kept of a list of candidates, each tried once, in order
RECURSIVE KeptCandidates(_, _)
KeptCandidates(stems, existing) ==
    IF stems = <<>> THEN <<>>
    ELSE IF NearDuplicate(Head(stems), existing)
    THEN KeptCandidates(Tail(stems), existing)
    ELSE <<Head(stems)>> \o KeptCandidates(Tail(stems), Append(existing, Head(stems)))

\* the candidates of a call, one per category drawn
Candidates(call) ==
    [i \in 1..Len(call.picks) |->
        call_model_to_generate_question(normalize_difficulty(call.difficulty),
                                        call.picks[i].label, call.topic)]

\* C22: the batch of a call is its candidates less the near-duplicates of the stems
\* of the authored bank, of the pool and of the candidates kept before them, each
\* candidate tried once; the pool grows by the batch and by nothing else; and no two
\* questions of the pool have stems that are equal once case-folded.
NoNearDuplicateAdded ==
    Completed =>
        /\ StemsOf(Batch) =
              KeptCandidates(Candidates(genRun.call),
                             StemsOf(Authored) \o StemsOf(PoolBefore))
        /\ SubSeq(Pool, Len(PoolBefore) + 1, Len(Pool)) = Batch
        /\ Len(Pool) >= Len(Batch)
        /\ \A i, j \in 1..Len(Pool) :
              (i # j /\ Pool[i].stem # <<>>)
                  => lower(Pool[i].stem) # lower(Pool[j].stem)

\* C22 witness: with an authored stem of 69 characters that the candidates of the
\* second category contain, a call drew the second category, then the first: the
\* first candidate was skipped and the second kept.
SuperstringSkipped ==
    /\ Completed
    /\ Len(Authored) = 1
    /\ Authored[1].text = LongFragment
    /\ Len(genRun.call.picks) = 2
    /\ genRun.call.picks[1].code = "11B-4"
    /\ genRun.call.picks[2].code = "11B-5/8"
    /\ Len(Batch) = 1
    /\ Batch[1].cbc_category = "11B-5/8"
    /\ len(LongFragment) >= 40
    /\ in_str(lower(LongFragment), lower(Candidates(genRun.call)[1]))

\* the ids of a list of questions
IdsOf(questions) == [i \in 1..Len(questions) |-> questions[i].id]

\* the prefix of the generated ids of an exam type
ClaimedPrefix(exam_type) == IF exam_type = "open_book" THEN "gen-ob-" ELSE "gen-cb-"

\* C23: the ids of the authored bank and of the pool are pairwise distinct, and the
\* id of every question of the batch made last is the prefix of the exam type and a
\* number on 6 digits, larger than the number of every id with that prefix of the
\* authored bank, of the pool before the call and of the batch before it.
IdsDistinctAndIncreasing ==
    LET all == IdsOf(Authored) \o IdsOf(Pool)
        before == IdsOf(Authored) \o IdsOf(PoolBefore)
    IN  /\ \A i, j \in 1..Len(all) : i # j => all[i] # all[j]
        /\ Completed =>
              \A k \in 1..Len(Batch) :
                  LET earlier == before \o SubSeq(IdsOf(Batch), 1, k - 1)
                  IN  /\ Batch[k].id.prefix = ClaimedPrefix(genRun.call.exam_type)
                      /\ Batch[k].id.digits
                      /\ Batch[k].id.width = 6
                      /\ \A i \in 1..Len(earlier) :
                            (earlier[i].prefix = Batch[k].id.prefix
                                /\ earlier[i].digits)
                                => Batch[k].id.n > earlier[i].n

\* C23 witness: the authored bank holds gen-ob-000007 and an id gen-ob- without a
\* number, and an open-book batch of two got gen-ob-000008 and gen-ob-000009.
EightAndNineAfterSeven ==
    /\ Completed
    /\ Len(Authored) = 2
    /\ Authored[1].id = GenId("gen-ob-", 7, 6)
    /\ Authored[2].id = DraftId("gen-ob-")
    /\ IdsOf(Batch) = <<GenId("gen-ob-", 8, 6), GenId("gen-ob-", 9, 6)>>

\* the fatal error a call must end with, None when it must not
ClaimedError(call, authored) ==
    IF authored = <<>> THEN "FileNotFoundError"
    ELSE IF normalize_difficulty(call.difficulty) \notin VALID_DIFFICULTIES
    THEN "ValueError"
    ELSE IF call.num_questions <= 0 THEN "ValueError"
    ELSE NoneVal

\* C24: a call fails exactly on a missing or empty authored bank, an invalid
\* difficulty or a count that is not positive, and then has no batch; a call whose
\* candidates are all near-duplicates returns; and a call that ends without a question
\* leaves the pool file and the archive directory as they were.
NothingWrittenWithoutItem ==
    [][genRun' # genRun =>
          LET call == genRun'.call
              out == genRun'.out
          IN  /\ out.error = ClaimedError(call, Authored)
              /\ (out.status = "raised") <=> (out.error # NoneVal)
              /\ out.status = "raised" => out.new_questions = <<>>
              /\ (out.status = "returned")
                    <=> (out.error = NoneVal /\ out.new_questions = <<>>)
              /\ out.new_questions = <<>>
                    => (generatedBank' = generatedBank /\ archiveDir' = archiveDir)]_vars

\* C24 witness: a call of two candidates, both near-duplicates, has returned; there is
\* still no pool file and no archive.
AllCandidatesRejected ==
    /\ genRun.out.status = "returned"
    /\ Len(genRun.call.picks) = 2
    /\ Batch = <<>>
    /\ generatedBank = Missing
    /\ archiveDir = <<>>

\* the archive name of the call made last: exam type, difficulty, second
LastArchive ==
    [exam_type |-> genRun.call.exam_type, difficulty |-> genRun.out.difficulty,
     ts |-> genRun.call.now]

ArchivesImmutable ==
    [][\A name \in DOMAIN archiveDir :
          /\ name \in DOMAIN archiveDir'
          /\ archiveDir'[name] = archiveDir[name]]_vars

\* C27: every step leaves the pool before it as a prefix of the pool after it, every
\* record as it was; a call adds exactly its batch, in order, and nothing else adds
\* anything.
PoolAppendOnly ==
    [][LET before == load_json_list(generatedBank)
           after == load_json_list(generatedBank')
       IN  /\ Len(before) <= Len(after)
           /\ SubSeq(after, 1, Len(before)) = before
           /\ SubSeq(after, Len(before) + 1, Len(after)) =
                 IF genRun' # genRun THEN genRun'.out.new_questions ELSE <<>>]_vars

\* C27 witness: a call has added one question to a pool of one.
SecondBatchAppended ==
    /\ genRun.out.status = "saved"
    /\ Len(PoolBefore) = 1
    /\ Len(Batch) = 1
    /\ Pool = PoolBefore \o Batch

\* of a caller: its batch, the pool it loaded, the pool it writes, its archive name
BatchOf(p) == callers[p].out.new_questions
WrittenBy(p) == callers[p].out.generated_bank
LoadedBy(p) == SubSeq(WrittenBy(p), 1, Len(WrittenBy(p)) - Len(BatchOf(p)))
ArchiveOf(p) ==
    [exam_type |-> callers[p].call.exam_type, difficulty |-> callers[p].out.difficulty,
     ts |-> callers[p].ts]
OtherCaller(p) == CHOOSE q \in Callers : q # p

\* both callers have a batch, and both loaded the pool before either wrote it: the
\* caller that loads after the other's write loads a longer pool
Overlapped ==
    /\ \A p \in Callers : callers[p].out.status = "saved"
    /\ LoadedBy(1) = LoadedBy(2)
BothSaved == \A p \in Callers : callers[p].pc \in {"archive", "idle"}
BothArchived == \A p \in Callers : callers[p].pc = "idle"

\* the pool file is what caller p wrote, and holds of the other batch only what is
\* also in the batch of p
OverwrittenBy(p) ==
    /\ Pool = WrittenBy(p)
    /\ \A i \in 1..Len(BatchOf(OtherCaller(p))) :
          (\E j \in 1..Len(Pool) : Pool[j] = BatchOf(OtherCaller(p))[i])
              => \E k \in 1..Len(BatchOf(p)) : BatchOf(p)[k] = BatchOf(OtherCaller(p))[i]

\* the archive of caller p holds the batch of caller q
ArchiveHolds(p, q) ==
    /\ ArchiveOf(p) \in DOMAIN archiveDir
    /\ load_json_list(archiveDir[ArchiveOf(p)].primary) = BatchOf(q)

\* C28 as stated: when two batches overlap, the first questions of both get the same
\* id; once both have saved, the pool file is the pool of the one that saved last,
\* without the questions of the other; once both have archived, the archive of each
\* holds its batch.
SameIdAndLostBatch ==
    Overlapped =>
        /\ BatchOf(1)[1].id = BatchOf(2)[1].id
        /\ BothSaved => \A p \in Callers : callers[p].last => OverwrittenBy(p)
        /\ BothArchived => \A p \in Callers : ArchiveHolds(p, p)

\* C28 amended: when two batches overlap, the first questions of both get the same id
\* if the exam types of the two have the same id prefix; once both have saved, the
\* pool file is the pool of the one that saved last, without the questions of the
\* other; once both have archived, the archive of each holds its batch if the two
\* archive names differ, and the batch archived last if they are the same name.
LostUpdateOnSamePrefix ==
    Overlapped =>
        /\ ClaimedPrefix(callers[1].call.exam_type)
                = ClaimedPrefix(callers[2].call.exam_type)
              => BatchOf(1)[1].id = BatchOf(2)[1].id
        /\ BothSaved => \A p \in Callers : callers[p].last => OverwrittenBy(p)
        /\ BothArchived =>
              \A p \in Callers :
                  IF ArchiveOf(p) # ArchiveOf(OtherCaller(p))
                  THEN ArchiveHolds(p, p)
                  ELSE ArchiveHolds(p, p) \/ ArchiveHolds(p, OtherCaller(p))

\* C28 witness: two open-book batches overlapped and, gen-ob-000007 being in the
\* authored bank, both got gen-ob-000008 for questions of different categories;
\* caller 2 saved last, so the pool file lacks the question of caller 1, which is in
\* the archive of caller 1, written in another second.
FirstBatchLost ==
    /\ Overlapped
    /\ BothArchived
    /\ callers[2].last
    /\ callers[1].call.exam_type = "open_book"
    /\ callers[2].call.exam_type = "open_book"
    /\ BatchOf(1)[1].id = GenId("gen-ob-", 8, 6)
    /\ BatchOf(2)[1].id = GenId("gen-ob-", 8, 6)
    /\ BatchOf(1)[1].cbc_category # BatchOf(2)[1].cbc_category
    /\ Pool = WrittenBy(2)
    /\ \A j \in 1..Len(Pool) : Pool[j] # BatchOf(1)[1]
    /\ ArchiveOf(1) # ArchiveOf(2)
    /\ ArchiveHolds(1, 1)

-----------------------------------------------------------------------------
(* Claims on the store branch of the composer *)

\* C30: an open or closed exam served from the questions table holds questions of
\* the requested kind only; if the table has a question of the requested kind and
\* difficulty then every question returned has that difficulty, however few they are;
\* and the count of the response is the number of questions returned.
NoBlendFromStore ==
    (Answered /\ FromStore /\ Succeeded) =>
        /\ CountWhere(resp.questions, {req.mode}, AnyDifficulty) = Returned
        /\ (req.difficulty # NoneVal
                /\ CountWhere(store, {req.mode}, {req.difficulty}) > 0)
              => CountWhere(resp.questions, {req.mode}, {req.difficulty}) = Returned
        /\ resp.count = Returned
        /\ Returned > 0

\* C30 witness: the table has more questions of the kind than asked for but fewer of
\* the difficulty: the exam is shorter than the clamped count and all of the
\* requested difficulty.
FewerButUnblended ==
    /\ Succeeded
    /\ FromStore
    /\ req.difficulty # NoneVal
    /\ CountWhere(store, {req.mode}, AnyDifficulty) >= Requested
    /\ Returned < Requested
    /\ CountWhere(resp.questions, {req.mode}, {req.difficulty}) = Returned
    /\ resp.count = Returned

-----------------------------------------------------------------------------
(* Claims on the store handle *)

\* C29: a call opens one handle and closes it once; it ends, by a return, by the
\* "no questions" failure or by an exception of a query, only with its handle closed;
\* and it issues no query on a handle that is not open.
HandleClosedOnce ==
    /\ session.opened <= 1
    /\ session.closed <= session.opened
    /\ session.late = 0
    /\ session.handle = "open" <=> (session.opened = 1 /\ session.closed = 0)
    /\ session.pc = "ended" =>
          /\ session.opened = 1
          /\ session.closed = 1
          /\ session.handle = "closed"
          /\ session.outcome \in {"returned", "HTTPException", "exception"}

\* C29 witness: the fallback query of a mixed exam raised, and the call ended with
\* its handle closed once.
ClosedAfterQueryFailure ==
    /\ session.pc = "ended"
    /\ session.path = "mixed"
    /\ session.outcome = "exception"
    /\ session.got = <<0, 0>>
    /\ session.payload.difficulty # NoneVal
    /\ session.opened = 1
    /\ session.closed = 1
====
